---- MODULE Spec2Model ----
(***************************************************************************)
(* RoomVisionAI: room validation, IoU scoring and the detection pipeline.  *)
(*                                                                         *)
(* Python values are modelled as follows.                                  *)
(*   - an exception is a record [type, msg]; msg is the sequence of the    *)
(*     fixed words of the message (the interpolated numbers are left out); *)
(*   - the outcome of a call is [raised, exc, value];                      *)
(*   - a float that is the quotient of two integers is the reduced         *)
(*     fraction <<num, den>>;                                              *)
(*   - a value of the parsed JSON array is a record                        *)
(*     [kind, keys, id, bounding_box]; a bounding_box value is             *)
(*     [is_list, coords], a coordinate value [is_number, value].           *)
(***************************************************************************)
EXTENDS Integers, Sequences, FiniteSets, TLC

VARIABLES
    \* RoomValidator.validate_bounding_box / sanitize_coordinates on one box
    bbox, bxPc, bxOut, bxPrev,
    \* RoomValidator.validate_rooms on one list
    rooms, vrPc, vrOut,
    \* ValidationPipeline.calculate_iou on one pair of boxes
    pred_box, true_box, iouPc, iouOut,
    \* ValidationPipeline.match_rooms / calculate_metrics on one pair of lists
    predicted_rooms, ground_truth_rooms, iou_threshold,
    matches, used_gt_indices, mI, scPc, metrics,
    \* ValidationPipeline.run_validation_suite on one test-suite directory
    manifest_exists, manifest, files, all_metrics, sI, suPc, aggregate, printed,
    \* DetectRoomsUseCase.execute: arguments, the client's configuration, the
    \* clock, the locals of execute and of invoke_vision_model, the result
    image, complexity, has_small_text, bedrock_client, clock,
    exPc, start_time, prompt, attempt, response_text, rooms_data,
    envelope, exRaised, exLog,
    \* what the Bedrock runtime saw: when invoke_vision_model was entered,
    \* and each invoke_model call with its start, end and result
    invoke_start, calls,
    \* ResponseParser on one response text
    response, psPc, json_str, psOut,
    \* one Blueprint object, the last operation on it with the lists as they
    \* were when it was called, its outcome, and the blueprint handed to
    \* BlueprintRenderer.render by that operation
    blueprint, bpOp, bpOut, render_call,
    \* Room.to_dict on one Room object, get_prompt_for_blueprint on one pair
    \* of arguments
    room_entity, rdPc, rdOut, prompt_args, gpPc, gpOut,
    \* model output and ground truth through validate_rooms and then through
    \* match_rooms or calculate_metrics
    raw_predicted, raw_truth, agPc, valid_predicted, valid_truth, agOut,
    \* one FloorPlan: its blueprint, the last call with the lists as they
    \* were before it, the call's outcome, the number of calls made
    floor_plan, fpOp, fpOut, fpCalls,
    \* lambda_handler on one event: the event, the position in the handler,
    \* the envelope execute returned, the exception raised inside the try,
    \* the response returned
    event, lhPc, lambda_result, lhRaised, lambda_response,
    \* two invocations of execute on one use-case object: each one's image,
    \* what the Bedrock runtime answers to each of its calls, its position
    \* and its returned envelope; and the frames holding the local variables
    cc_image, cc_answers, ccPc, cc_envelope, frames

bxVars == <<bbox, bxPc, bxOut, bxPrev>>
vrVars == <<rooms, vrPc, vrOut>>
iouVars == <<pred_box, true_box, iouPc, iouOut>>
scVars == <<predicted_rooms, ground_truth_rooms, iou_threshold,
            matches, used_gt_indices, mI, scPc, metrics>>
suVars == <<manifest_exists, manifest, files, all_metrics, sI, suPc, aggregate, printed>>
exVars == <<image, complexity, has_small_text, bedrock_client, clock,
            exPc, start_time, prompt, attempt, response_text, rooms_data,
            envelope, exRaised, exLog, invoke_start, calls>>
psVars == <<response, psPc, json_str, psOut>>
bpVars == <<blueprint, bpOp, bpOut, render_call>>
enVars == <<room_entity, rdPc, rdOut, prompt_args, gpPc, gpOut>>
agVars == <<raw_predicted, raw_truth, agPc, valid_predicted, valid_truth, agOut>>
fpVars == <<floor_plan, fpOp, fpOut, fpCalls>>
lhVars == <<event, lhPc, lambda_result, lhRaised, lambda_response>>
ccVars == <<cc_image, cc_answers, ccPc, cc_envelope, frames>>
vars == <<bxVars, vrVars, iouVars, scVars, suVars, exVars, psVars, bpVars, enVars, agVars, fpVars, lhVars, ccVars>>

(***************************************************************************)
(* Python values                                                           *)
(***************************************************************************)
None == <<"<None>">>

NoExc == [type |-> "None", msg |-> <<>>]

Exc(type, msg) == [type |-> type, msg |-> msg]

Return(v) == [raised |-> FALSE, exc |-> NoExc, value |-> v]

Raise(e, v) == [raised |-> TRUE, exc |-> e, value |-> v]

Range(s) == {s[i] : i \in DOMAIN s}

Max2(a, b) == IF a >= b THEN a ELSE b

Min2(a, b) == IF a <= b THEN a ELSE b

(***************************************************************************)
(* RoomValidator                                                           *)
(***************************************************************************)
COORDINATE_MIN == 0

COORDINATE_MAX == 1000

CoordNames == <<"x_min", "y_min", "x_max", "y_max">>

Num(n) == [is_number |-> TRUE, value |-> n]

NotNum == [is_number |-> FALSE, value |-> 0]

ListBox(cs) == [is_list |-> TRUE, coords |-> cs]

NumBox(b) == ListBox([i \in DOMAIN b |-> Num(b[i])])

\* a bounding_box value that is not a list (a JSON object, string, number or null)
NotAList == [is_list |-> FALSE, coords |-> <<>>]

\* the first coordinate, in the order x_min, y_min, x_max, y_max, that fails
\* the loop's two checks; 0 when all four pass
FirstBadCoord(cs) ==
    IF \E i \in 1..4 : ~cs[i].is_number
                       \/ ~(COORDINATE_MIN <= cs[i].value /\ cs[i].value <= COORDINATE_MAX)
    THEN CHOOSE i \in 1..4 :
            /\ ~cs[i].is_number
               \/ ~(COORDINATE_MIN <= cs[i].value /\ cs[i].value <= COORDINATE_MAX)
            /\ \A j \in 1..(i - 1) :
                  /\ cs[j].is_number
                  /\ COORDINATE_MIN <= cs[j].value /\ cs[j].value <= COORDINATE_MAX
    ELSE 0

\* the range loop taken in the wrong place: geometry is looked at first
validate_bounding_box_geometry_first(b, room_id) ==
    IF ~b.is_list
    THEN Raise(Exc("ValueError", <<"Bounding box must be a list">>), FALSE)
    ELSE IF Len(b.coords) # 4
    THEN Raise(Exc("ValueError", <<"Bounding box must have 4 coordinates">>), FALSE)
    ELSE LET cs == b.coords
             bad == FirstBadCoord(cs)
         IN  IF \A i \in 1..4 : cs[i].is_number
             THEN IF cs[1].value >= cs[3].value
                  THEN Raise(Exc("ValueError", <<"x_min", "must be less than", "x_max">>), FALSE)
                  ELSE IF cs[2].value >= cs[4].value
                  THEN Raise(Exc("ValueError", <<"y_min", "must be less than", "y_max">>), FALSE)
                  ELSE IF bad # 0
                  THEN Raise(Exc("ValueError", <<CoordNames[bad], "must be between">>), FALSE)
                  ELSE Return(TRUE)
             ELSE Raise(Exc("ValueError", <<CoordNames[bad], "must be a number">>), FALSE)

\* a validator without its geometry checks
validate_bounding_box_range_only(b, room_id) ==
    IF ~b.is_list
    THEN Raise(Exc("ValueError", <<"Bounding box must be a list">>), FALSE)
    ELSE IF Len(b.coords) # 4
    THEN Raise(Exc("ValueError", <<"Bounding box must have 4 coordinates">>), FALSE)
    ELSE IF FirstBadCoord(b.coords) # 0
    THEN Raise(Exc("ValueError", <<CoordNames[FirstBadCoord(b.coords)], "must be between">>),
               FALSE)
    ELSE Return(TRUE)

validate_bounding_box(b, room_id) ==
    IF ~b.is_list
    THEN Raise(Exc("ValueError", <<"Bounding box must be a list">>), FALSE)
    ELSE IF Len(b.coords) # 4
    THEN Raise(Exc("ValueError", <<"Bounding box must have 4 coordinates">>), FALSE)
    ELSE LET cs == b.coords
             bad == FirstBadCoord(cs)
         IN  IF bad # 0
             THEN IF ~cs[bad].is_number
                  THEN Raise(Exc("ValueError", <<CoordNames[bad], "must be a number">>), FALSE)
                  ELSE Raise(Exc("ValueError", <<CoordNames[bad], "must be between">>), FALSE)
             ELSE IF cs[1].value >= cs[3].value
             THEN Raise(Exc("ValueError", <<"x_min", "must be less than", "x_max">>), FALSE)
             ELSE IF cs[2].value >= cs[4].value
             THEN Raise(Exc("ValueError", <<"y_min", "must be less than", "y_max">>), FALSE)
             ELSE Return(TRUE)

Clamp(v) == Max2(COORDINATE_MIN, Min2(v, COORDINATE_MAX))

\* a repair that nudges before it clamps
sanitize_coordinates_nudge_first(b) ==
    IF ~b.is_list
    THEN Raise(Exc("TypeError", <<"cannot unpack non-iterable object">>), <<>>)
    ELSE IF Len(b.coords) # 4
    THEN Raise(Exc("ValueError", <<"wrong number of values to unpack">>), <<>>)
    ELSE IF \E i \in 1..4 : ~b.coords[i].is_number
    THEN Raise(Exc("TypeError", <<"'<' not supported between instances">>), <<>>)
    ELSE Return(<<Clamp(b.coords[1].value),
                  Clamp(b.coords[2].value),
                  Clamp(IF b.coords[1].value >= b.coords[3].value
                        THEN b.coords[1].value + 1 ELSE b.coords[3].value),
                  Clamp(IF b.coords[2].value >= b.coords[4].value
                        THEN b.coords[2].value + 1 ELSE b.coords[4].value)>>)

sanitize_coordinates(b) ==
    IF ~b.is_list
    THEN Raise(Exc("TypeError", <<"cannot unpack non-iterable object">>), <<>>)
    ELSE IF Len(b.coords) # 4
    THEN Raise(Exc("ValueError", <<"wrong number of values to unpack">>), <<>>)
    ELSE IF \E i \in 1..4 : ~b.coords[i].is_number
    THEN Raise(Exc("TypeError", <<"'<' not supported between instances">>), <<>>)
    ELSE LET x_min == Clamp(b.coords[1].value)
             y_min == Clamp(b.coords[2].value)
             x_max0 == Clamp(b.coords[3].value)
             y_max0 == Clamp(b.coords[4].value)
             x_max == IF x_min >= x_max0 THEN Min2(x_min + 1, COORDINATE_MAX) ELSE x_max0
             y_max == IF y_min >= y_max0 THEN Min2(y_min + 1, COORDINATE_MAX) ELSE y_max0
         IN  Return(<<x_min, y_min, x_max, y_max>>)

\* isinstance(e, ValueError), the test of validate_rooms' except clause
IsValueError(e) == e.type \in {"ValueError", "JSONDecodeError"}

\* "id" not in room / "bounding_box" not in room / room[...] on a value of the
\* parsed array: a dict, a number, null, or a string (for a string, keys are
\* the substrings among "id" and "bounding_box" that it contains)
validate_room(room) ==
    IF room.kind \in {"number", "null"}
    THEN Raise(Exc("TypeError", <<"argument of type is not iterable">>), FALSE)
    ELSE IF "id" \notin room.keys
    THEN Raise(Exc("ValueError", <<"Room missing 'id' field">>), FALSE)
    ELSE IF "bounding_box" \notin room.keys
    THEN IF room.kind = "string"
         THEN Raise(Exc("AttributeError", <<"'str' object has no attribute 'get'">>), FALSE)
         ELSE Raise(Exc("ValueError", <<"Room", "missing 'bounding_box' field">>), FALSE)
    ELSE IF room.kind = "string"
    THEN Raise(Exc("TypeError", <<"string indices must be integers">>), FALSE)
    ELSE LET o == validate_bounding_box(room.bounding_box, room.id)
         IN  IF o.raised THEN o ELSE Return(TRUE)

\* the loop body that appends before it validates
RECURSIVE validate_rooms_keep_all(_, _, _)
validate_rooms_keep_all(rs, i, valid_rooms) ==
    IF i > Len(rs)
    THEN Return(valid_rooms)
    ELSE LET o == validate_room(rs[i])
         IN  IF o.raised /\ ~IsValueError(o.exc)
             THEN Raise(o.exc, <<>>)
             ELSE validate_rooms_keep_all(rs, i + 1, Append(valid_rooms, rs[i]))

\* the for loop of validate_rooms from record i on, valid_rooms built so far
RECURSIVE validate_rooms_from(_, _, _)
validate_rooms_from(rs, i, valid_rooms) ==
    IF i > Len(rs)
    THEN Return(valid_rooms)
    ELSE LET o == validate_room(rs[i])
         IN  IF ~o.raised
             THEN validate_rooms_from(rs, i + 1, Append(valid_rooms, rs[i]))
             ELSE IF IsValueError(o.exc)
             THEN validate_rooms_from(rs, i + 1, valid_rooms)
             ELSE Raise(o.exc, <<>>)

validate_rooms(rs) == validate_rooms_from(rs, 1, <<>>)

(***************************************************************************)
(* One box through validate_bounding_box or sanitize_coordinates           *)
(***************************************************************************)
CoordSamples == {COORDINATE_MIN - 10, COORDINATE_MIN, 100, 200, 500, 600,
                 COORDINATE_MAX, COORDINATE_MAX + 500}

BoxInputs ==
    {NumBox(<<a, b, c, d>>) : a \in CoordSamples, b \in CoordSamples,
                              c \in CoordSamples, d \in CoordSamples}
    \cup {NotAList, NumBox(<<>>), NumBox(<<100, 200, 500>>),
          NumBox(<<100, 200, 500, 600, 700>>)}
    \cup {ListBox([NumBox(<<a, 200, c, 600>>).coords EXCEPT ![i] = NotNum]) :
             a \in {100, 500, 1500}, c \in {100, 500, 1500}, i \in 1..4}

bxIdle ==
    /\ bbox = NotAList /\ bxPc = "idle"
    /\ bxOut = Return(FALSE) /\ bxPrev = Return(FALSE)

vrIdle == rooms = <<>> /\ vrPc = "idle" /\ vrOut = Return(<<>>)

iouIdle ==
    /\ pred_box = <<>> /\ true_box = <<>>
    /\ iouPc = "idle" /\ iouOut = Return(<<0, 1>>)

scIdle ==
    /\ predicted_rooms = <<>> /\ ground_truth_rooms = <<>>
    /\ iou_threshold = <<1, 2>>
    /\ matches = <<>> /\ used_gt_indices = {} /\ mI = 0
    /\ scPc = "idle" /\ metrics = Return(<<>>)

suIdle ==
    /\ manifest_exists = FALSE /\ manifest = <<>> /\ files = <<>>
    /\ all_metrics = <<>> /\ sI = 0
    /\ suPc = "idle" /\ aggregate = Return(<<>>) /\ printed = <<>>

NoResponse == [kind |-> "unset", text |-> <<>>]

NoEnvelope == [success |-> FALSE, rooms |-> <<>>, processing_time |-> 0, error |-> <<>>]

exIdle ==
    /\ image = "none" /\ complexity = "standard" /\ has_small_text = FALSE
    /\ bedrock_client = [max_retries |-> 3, timeout |-> 60]
    /\ clock = 0 /\ exPc = "idle" /\ start_time = 0 /\ prompt = "unset"
    /\ attempt = 0 /\ response_text = NoResponse /\ rooms_data = <<>>
    /\ envelope = NoEnvelope
    /\ exRaised = [stage |-> "none", exc |-> NoExc]
    /\ exLog = <<>>
    /\ invoke_start = 0 /\ calls = <<>>

psIdle ==
    /\ response = NoResponse /\ psPc = "idle"
    /\ json_str = Return(<<>>) /\ psOut = Return(<<>>)

\* no Blueprint object yet
NoBlueprint == [exists |-> FALSE, width |-> 0, height |-> 0, walls |-> <<>>, rooms |-> <<>>]

NoOp == [name |-> "none", arg |-> None, walls |-> <<>>, rooms |-> <<>>]

bpIdle ==
    /\ blueprint = NoBlueprint /\ bpOp = NoOp
    /\ bpOut = Return(None) /\ render_call = <<>>

\* an Optional[str]: None or a string
NoneStr == [kind |-> "None", text |-> ""]
PyStr(text) == [kind |-> "str", text |-> text]

\* a Room object with its three attributes
RoomEntity(id, bounding_box, name_hint) ==
    [id |-> id, bounding_box |-> bounding_box, name_hint |-> name_hint]

\* a dict with the keys id, bounding_box and possibly name_hint
RoomDict(keys, id, bounding_box, name_hint) ==
    [keys |-> keys, id |-> id, bounding_box |-> bounding_box, name_hint |-> name_hint]

enIdle ==
    /\ room_entity = RoomEntity("none", <<0, 0, 1, 1>>, NoneStr)
    /\ rdPc = "idle" /\ rdOut = RoomDict({}, "none", <<>>, NoneStr)
    /\ prompt_args = <<"standard", FALSE>>
    /\ gpPc = "idle" /\ gpOut = "unset"

agIdle ==
    /\ raw_predicted = <<>> /\ raw_truth = <<>> /\ agPc = "idle"
    /\ valid_predicted = Return(<<>>) /\ valid_truth = Return(<<>>)
    /\ agOut = Return(<<>>)

fpIdle ==
    /\ floor_plan = NoBlueprint /\ fpOp = NoOp
    /\ fpOut = Return(None) /\ fpCalls = 0

\* an event: whether it is a dict, what its "headers" entry is, what its
\* "body" entry is
Event(is_dict, headers, body) == [is_dict |-> is_dict, headers |-> headers, body |-> body]

\* the dict that json.dumps turns into the response body
Body(keys, success, rooms_, error) ==
    [keys |-> keys, success |-> success, rooms |-> rooms_, error |-> error]

NoLambdaResponse == [statusCode |-> 0, body |-> Body({}, FALSE, <<>>, None)]

lhIdle ==
    /\ event = Event(TRUE, "absent", "absent") /\ lhPc = "idle"
    /\ lambda_result = NoEnvelope /\ lhRaised = NoExc
    /\ lambda_response = NoLambdaResponse

Invocations == {1, 2}

\* the local variables of execute and invoke_vision_model before any
\* assignment
NoLocals == [processed_image |-> "none", prompt |-> "unset", attempt |-> 0,
             response_text |-> NoResponse, rooms_data |-> <<>>]

NoResult == [success |-> FALSE, rooms |-> <<>>, error |-> None]

ccIdle ==
    /\ cc_image = [i \in Invocations |-> "none"]
    /\ cc_answers = [i \in Invocations |-> <<>>]
    /\ ccPc = [i \in Invocations |-> "idle"]
    /\ cc_envelope = [i \in Invocations |-> NoResult]
    /\ frames = [i \in Invocations |-> NoLocals]

bxRest == <<vrVars, iouVars, scVars, suVars, exVars, psVars, bpVars, enVars, agVars, fpVars, lhVars, ccVars>>
bxRestIdle == vrIdle /\ iouIdle /\ scIdle /\ suIdle /\ exIdle /\ psIdle /\ bpIdle /\ enIdle /\ agIdle /\ fpIdle /\ lhIdle /\ ccIdle

vrRest == <<bxVars, iouVars, scVars, suVars, exVars, psVars, bpVars, enVars, agVars, fpVars, lhVars, ccVars>>
vrRestIdle == bxIdle /\ iouIdle /\ scIdle /\ suIdle /\ exIdle /\ psIdle /\ bpIdle /\ enIdle /\ agIdle /\ fpIdle /\ lhIdle /\ ccIdle

iouRest == <<bxVars, vrVars, scVars, suVars, exVars, psVars, bpVars, enVars, agVars, fpVars, lhVars, ccVars>>
iouRestIdle == bxIdle /\ vrIdle /\ scIdle /\ suIdle /\ exIdle /\ psIdle /\ bpIdle /\ enIdle /\ agIdle /\ fpIdle /\ lhIdle /\ ccIdle

scRest == <<bxVars, vrVars, iouVars, suVars, exVars, psVars, bpVars, enVars, agVars, fpVars, lhVars, ccVars>>
scRestIdle == bxIdle /\ vrIdle /\ iouIdle /\ suIdle /\ exIdle /\ psIdle /\ bpIdle /\ enIdle /\ agIdle /\ fpIdle /\ lhIdle /\ ccIdle

suRest == <<bxVars, vrVars, iouVars, scVars, exVars, psVars, bpVars, enVars, agVars, fpVars, lhVars, ccVars>>
suRestIdle == bxIdle /\ vrIdle /\ iouIdle /\ scIdle /\ exIdle /\ psIdle /\ bpIdle /\ enIdle /\ agIdle /\ fpIdle /\ lhIdle /\ ccIdle

exRest == <<bxVars, vrVars, iouVars, scVars, suVars, psVars, bpVars, enVars, agVars, fpVars, lhVars, ccVars>>
exRestIdle == bxIdle /\ vrIdle /\ iouIdle /\ scIdle /\ suIdle /\ psIdle /\ bpIdle /\ enIdle /\ agIdle /\ fpIdle /\ lhIdle /\ ccIdle

psRest == <<bxVars, vrVars, iouVars, scVars, suVars, exVars, bpVars, enVars, agVars, fpVars, lhVars, ccVars>>
psRestIdle == bxIdle /\ vrIdle /\ iouIdle /\ scIdle /\ suIdle /\ exIdle /\ bpIdle /\ enIdle /\ agIdle /\ fpIdle /\ lhIdle /\ ccIdle

bpRest == <<bxVars, vrVars, iouVars, scVars, suVars, exVars, psVars, enVars, agVars, fpVars, lhVars, ccVars>>
bpRestIdle == bxIdle /\ vrIdle /\ iouIdle /\ scIdle /\ suIdle /\ exIdle /\ psIdle /\ enIdle /\ agIdle /\ fpIdle /\ lhIdle /\ ccIdle

enRest == <<bxVars, vrVars, iouVars, scVars, suVars, exVars, psVars, bpVars, agVars, fpVars, lhVars, ccVars>>
enRestIdle == bxIdle /\ vrIdle /\ iouIdle /\ scIdle /\ suIdle /\ exIdle /\ psIdle /\ bpIdle /\ agIdle /\ fpIdle /\ lhIdle /\ ccIdle

agRest == <<bxVars, vrVars, iouVars, scVars, suVars, exVars, psVars, bpVars, enVars, fpVars, lhVars, ccVars>>
agRestIdle == bxIdle /\ vrIdle /\ iouIdle /\ scIdle /\ suIdle /\ exIdle /\ psIdle /\ bpIdle /\ enIdle /\ fpIdle /\ lhIdle /\ ccIdle

fpRest == <<bxVars, vrVars, iouVars, scVars, suVars, exVars, psVars, bpVars, enVars, agVars, lhVars, ccVars>>
fpRestIdle == bxIdle /\ vrIdle /\ iouIdle /\ scIdle /\ suIdle /\ exIdle /\ psIdle /\ bpIdle /\ enIdle /\ agIdle /\ lhIdle /\ ccIdle

lhRest == <<bxVars, vrVars, iouVars, scVars, suVars, exVars, psVars, bpVars, enVars, agVars, fpVars, ccVars>>
lhRestIdle == bxIdle /\ vrIdle /\ iouIdle /\ scIdle /\ suIdle /\ exIdle /\ psIdle /\ bpIdle /\ enIdle /\ agIdle /\ fpIdle /\ ccIdle

ccRest == <<bxVars, vrVars, iouVars, scVars, suVars, exVars, psVars, bpVars, enVars, agVars, fpVars, lhVars>>
ccRestIdle == bxIdle /\ vrIdle /\ iouIdle /\ scIdle /\ suIdle /\ exIdle /\ psIdle /\ bpIdle /\ enIdle /\ agIdle /\ fpIdle /\ lhIdle

\* the room_id argument of the call, as validate_room passes room["id"]
BoxRoomId == 1

InitBox ==
    /\ bbox \in BoxInputs
    /\ bxPc = "call"
    /\ bxOut = Return(FALSE)
    /\ bxPrev = Return(FALSE)
    /\ bxRestIdle

ValidateBoundingBoxCall ==
    /\ bxPc = "call"
    /\ bxOut' = validate_bounding_box(bbox, BoxRoomId)
    /\ bxPc' = "validated"
    /\ UNCHANGED <<bbox, bxPrev, bxRest>>

SanitizeCoordinatesCall ==
    /\ bxPc = "call"
    /\ bxOut' = sanitize_coordinates(bbox)
    /\ bxPc' = "sanitized"
    /\ UNCHANGED <<bbox, bxPrev, bxRest>>

\* sanitize_coordinates applied to the list the first call returned
SanitizeAgainCall ==
    /\ bxPc = "sanitized"
    /\ ~bxOut.raised
    /\ bxPrev' = bxOut
    /\ bxOut' = sanitize_coordinates(NumBox(bxOut.value))
    /\ bxPc' = "resanitized"
    /\ UNCHANGED <<bbox, bxRest>>

NextBox ==
    \/ ValidateBoundingBoxCall
    \/ SanitizeCoordinatesCall
    \/ SanitizeAgainCall

SpecBox == InitBox /\ [][NextBox]_vars

(***************************************************************************)
(* One list of parsed records through validate_rooms                       *)
(***************************************************************************)
MaxRooms == 3

RoomBoxes == {NumBox(<<100, 200, 500, 600>>), NumBox(<<200, 300, 600, 700>>),
              NumBox(<<500, 200, 100, 600>>), NumBox(<<100, 200, 1500, 600>>),
              NumBox(<<100, 200, 500>>), NotAList,
              ListBox(<<Num(100), NotNum, Num(500), Num(600)>>)}

DictRoom(keys, id, b) == [kind |-> "dict", keys |-> keys, id |-> id, bounding_box |-> b]

OtherValue(kind, keys) == [kind |-> kind, keys |-> keys, id |-> 0, bounding_box |-> NotAList]

RoomIds == {1, 2}

RoomSamples ==
    {DictRoom({"id", "bounding_box"}, i, b) : i \in RoomIds, b \in RoomBoxes}
    \cup {DictRoom({"bounding_box"}, 0, b) : b \in RoomBoxes}
    \cup {DictRoom({"id"}, i, NotAList) : i \in RoomIds}
    \cup {DictRoom({}, 0, NotAList)}
    \cup {OtherValue("number", {}), OtherValue("null", {}), OtherValue("string", {}),
          OtherValue("string", {"id"}), OtherValue("string", {"id", "bounding_box"})}

SeqsUpTo(S, n) == UNION {[1..k -> S] : k \in 0..n}

InitRooms ==
    /\ rooms \in SeqsUpTo(RoomSamples, MaxRooms)
    /\ vrPc = "call"
    /\ vrOut = Return(<<>>)
    /\ vrRestIdle

ValidateRoomsCall ==
    /\ vrPc = "call"
    /\ vrOut' = validate_rooms(rooms)
    /\ vrPc' = "done"
    /\ UNCHANGED <<rooms, vrRest>>

NextRooms == ValidateRoomsCall

SpecRooms == InitRooms /\ [][NextRooms]_vars

(***************************************************************************)
(* Properties of RoomValidator                                             *)
(***************************************************************************)
\* what the specification calls a valid box: four numbers, each in
\* [0, 1000], strictly ordered on both axes
IsFourSeq(b) == b.is_list /\ Len(b.coords) = 4

InRangeNumber(c) == c.is_number /\ c.value >= 0 /\ c.value <= 1000

IsValidBox(b) ==
    /\ IsFourSeq(b)
    /\ \A i \in 1..4 : InRangeNumber(b.coords[i])
    /\ b.coords[1].value < b.coords[3].value
    /\ b.coords[2].value < b.coords[4].value

PassesValidation(r) ==
    /\ r.kind = "dict"
    /\ {"id", "bounding_box"} \subseteq r.keys
    /\ IsValidBox(r.bounding_box)

\* the error classes of the specification, read off the message
ErrorClass(e) ==
    IF e.type # "ValueError" THEN "other"
    ELSE IF e.msg[1] \in {"Bounding box must be a list", "Bounding box must have 4 coordinates"}
    THEN "schema"
    ELSE IF "must be a number" \in Range(e.msg) \/ "must be between" \in Range(e.msg)
    THEN "range"
    ELSE IF "must be less than" \in Range(e.msg)
    THEN "geometry"
    ELSE "other"

\* C2: validate_rooms returns normally whatever a single record is (a mapping
\* with missing keys, a malformed box, or a non-mapping value); the bad
\* record is dropped and the others are still evaluated.
C2_NeverFailsBatch ==
    vrPc = "done" =>
        /\ ~vrOut.raised
        /\ vrOut.value = SelectSeq(rooms, PassesValidation)

\* C3: on a list of mappings validate_rooms returns, and whenever it returns
\* the result is exactly the ordered subsequence of the input records that
\* have an id, a bounding_box and a valid box: none dropped, none kept
\* wrongly, none altered, order preserved.
C3_ExactSubsequence ==
    vrPc = "done" =>
        /\ (\A i \in DOMAIN rooms : rooms[i].kind = "dict") => ~vrOut.raised
        /\ ~vrOut.raised => vrOut.value = SelectSeq(rooms, PassesValidation)

\* C3 witness: a three-record list, valid / inverted / valid, filtered to two
C3_Witness ==
    /\ vrPc = "done"
    /\ Len(rooms) = 3
    /\ PassesValidation(rooms[1])
    /\ rooms[2] = DictRoom({"id", "bounding_box"}, 2, NumBox(<<500, 200, 100, 600>>))
    /\ PassesValidation(rooms[3])
    /\ rooms[1] # rooms[3]
    /\ vrOut = Return(<<rooms[1], rooms[3]>>)

\* C4: for every 4-element numeric box, sanitize_coordinates returns a box
\* with all four coordinates in [0, 1000], x_min < x_max and y_min < y_max.
C4_SanitizeStrictBox ==
    (bxPc = "sanitized" /\ IsFourSeq(bbox) /\ \A i \in 1..4 : bbox.coords[i].is_number) =>
        /\ ~bxOut.raised
        /\ \A i \in 1..4 : bxOut.value[i] >= 0 /\ bxOut.value[i] <= 1000
        /\ bxOut.value[1] < bxOut.value[3]
        /\ bxOut.value[2] < bxOut.value[4]

\* C10: validate_bounding_box checks in a fixed order: schema error unless
\* the box is a 4-element list; else range error if a coordinate is not a
\* number or lies outside [0, 1000]; else geometry error if x_min >= x_max
\* or y_min >= y_max; else True. A box out of range and inverted is a range
\* error.
C10_CheckOrder ==
    bxPc = "validated" =>
        IF ~IsFourSeq(bbox)
        THEN bxOut.raised /\ ErrorClass(bxOut.exc) = "schema"
        ELSE IF \E i \in 1..4 : ~InRangeNumber(bbox.coords[i])
        THEN bxOut.raised /\ ErrorClass(bxOut.exc) = "range"
        ELSE IF bbox.coords[1].value >= bbox.coords[3].value
                \/ bbox.coords[2].value >= bbox.coords[4].value
        THEN bxOut.raised /\ ErrorClass(bxOut.exc) = "geometry"
        ELSE bxOut = Return(TRUE)

\* C10 witness: a box both out of range and inverted, reported as a range error
C10_Witness ==
    /\ bxPc = "validated"
    /\ bbox = NumBox(<<1500, 200, 100, 600>>)
    /\ bxOut.raised
    /\ ErrorClass(bxOut.exc) = "range"


\* the text of a room id inside an f-string
str(room_id) == ToString(room_id)

\* the message of e contains the text
Mentions(e, text) == text \in Range(e.msg)

\* C11: whenever validate_bounding_box rejects a box and a room id was
\* supplied, the error names the offending coordinate(s) and that room id; a
\* geometry error names both the min and the max coordinate of the inverted
\* axis.
C11_ErrorNamesCoordinateAndRoom ==
    (bxPc = "validated" /\ bxOut.raised) =>
        /\ Mentions(bxOut.exc, str(BoxRoomId))
        /\ ErrorClass(bxOut.exc) = "range" =>
              Mentions(bxOut.exc, CoordNames[FirstBadCoord(bbox.coords)])
        /\ ErrorClass(bxOut.exc) = "geometry" =>
              \/ Mentions(bxOut.exc, "x_min") /\ Mentions(bxOut.exc, "x_max")
              \/ Mentions(bxOut.exc, "y_min") /\ Mentions(bxOut.exc, "y_max")

(***************************************************************************)
(* BoundingBox and ValidationPipeline.calculate_iou                        *)
(***************************************************************************)
RECURSIVE GCD(_, _)
GCD(a, b) == IF b = 0 THEN a ELSE GCD(b, a % b)

\* n / d for integers n >= 0, d > 0: the float, as a reduced fraction
Frac(n, d) == LET g == GCD(n, d) IN <<n \div g, d \div g>>

Zero == <<0, 1>>

FracGt(a, b) == a[1] * b[2] > b[1] * a[2]

FracGe(a, b) == a[1] * b[2] >= b[1] * a[2]

\* BoundingBox.from_list followed by __post_init__; a box is <<x_min, y_min, x_max, y_max>>
BoundingBox_from_list(coords) ==
    IF Len(coords) # 4
    THEN Raise(Exc("ValueError", <<"Expected 4 coordinates">>), coords)
    ELSE IF \E i \in 1..4 : ~(0 <= coords[i] /\ coords[i] <= 1000)
    THEN Raise(Exc("ValueError",
                   <<CoordNames[CHOOSE i \in 1..4 :
                        /\ ~(0 <= coords[i] /\ coords[i] <= 1000)
                        /\ \A j \in 1..(i - 1) : 0 <= coords[j] /\ coords[j] <= 1000],
                     "must be between 0 and 1000">>), coords)
    ELSE IF coords[1] >= coords[3]
    THEN Raise(Exc("ValueError", <<"x_min", "must be less than", "x_max">>), coords)
    ELSE IF coords[2] >= coords[4]
    THEN Raise(Exc("ValueError", <<"y_min", "must be less than", "y_max">>), coords)
    ELSE Return(coords)

area(b) == (b[3] - b[1]) * (b[4] - b[2])

\* calculate_iou without its "no overlap" early return
calculate_iou_no_guard(pb, tb) ==
    LET p == BoundingBox_from_list(pb)
        t == BoundingBox_from_list(tb)
    IN  IF p.raised THEN Raise(p.exc, Zero)
        ELSE IF t.raised THEN Raise(t.exc, Zero)
        ELSE LET x1 == Max2(pb[1], tb[1])
                 y1 == Max2(pb[2], tb[2])
                 x2 == Min2(pb[3], tb[3])
                 y2 == Min2(pb[4], tb[4])
                 intersection == (x2 - x1) * (y2 - y1)
                 union == area(pb) + area(tb) - intersection
             IN  IF union <= 0 \/ intersection < 0 THEN Return(Zero)
                 ELSE Return(Frac(intersection, union))

calculate_iou(pb, tb) ==
    LET p == BoundingBox_from_list(pb)
        t == BoundingBox_from_list(tb)
    IN  IF p.raised THEN Raise(p.exc, Zero)
        ELSE IF t.raised THEN Raise(t.exc, Zero)
        ELSE LET x1 == Max2(pb[1], tb[1])
                 y1 == Max2(pb[2], tb[2])
                 x2 == Min2(pb[3], tb[3])
                 y2 == Min2(pb[4], tb[4])
             IN  IF x2 <= x1 \/ y2 <= y1
                 THEN Return(Zero)
                 ELSE LET intersection == (x2 - x1) * (y2 - y1)
                          union == area(pb) + area(tb) - intersection
                      IN  IF union = 0 THEN Return(Zero)
                          ELSE Return(Frac(intersection, union))

(***************************************************************************)
(* One pair of boxes through calculate_iou                                 *)
(***************************************************************************)
MaxCoord == 3

GridBoxes(n) ==
    {<<a, b, c, d>> : a \in 0..n, b \in 0..n, c \in 0..n, d \in 0..n}

ValidGridBoxes(n) == {b \in GridBoxes(n) : b[1] < b[3] /\ b[2] < b[4]}

IoUBoxes ==
    ValidGridBoxes(MaxCoord)
    \cup {<<1, 0, 1, 2>>, <<2, 0, 1, 1>>, <<0, 0, 1001, 1>>, <<0, 0, 1>>}

InitIoU ==
    /\ pred_box \in IoUBoxes
    /\ true_box \in IoUBoxes
    /\ iouPc = "call"
    /\ iouOut = Return(Zero)
    /\ iouRestIdle

CalculateIoUCall ==
    /\ iouPc = "call"
    /\ iouOut' = calculate_iou(pred_box, true_box)
    /\ iouPc' = "done"
    /\ UNCHANGED <<pred_box, true_box, iouRest>>

NextIoU == CalculateIoUCall

SpecIoU == InitIoU /\ [][NextIoU]_vars

(***************************************************************************)
(* Properties of calculate_iou                                             *)
(***************************************************************************)
\* the unit cells of the integer grid that a box covers
Cells(b) == {<<x, y>> : x \in b[1]..(b[3] - 1), y \in b[2]..(b[4] - 1)}

IsValidGridBox(b) ==
    /\ Len(b) = 4
    /\ \A i \in 1..4 : b[i] >= 0 /\ b[i] <= 1000
    /\ b[1] < b[3] /\ b[2] < b[4]

\* C7: for valid integer boxes A, B: IoU(A,B) = IoU(B,A), IoU(A,A) = 1, and
\* IoU(A,B) = 0 whenever A and B share no area (edge or corner contact
\* included); otherwise it is shared area over covered area.
C7_IoUAlgebra ==
    (iouPc = "done" /\ IsValidGridBox(pred_box) /\ IsValidGridBox(true_box)) =>
        /\ ~iouOut.raised
        /\ iouOut = calculate_iou(true_box, pred_box)
        /\ pred_box = true_box => iouOut.value = <<1, 1>>
        /\ Cells(pred_box) \cap Cells(true_box) = {} => iouOut.value = <<0, 1>>
        /\ iouOut.value[1] * Cardinality(Cells(pred_box) \cup Cells(true_box))
              = Cardinality(Cells(pred_box) \cap Cells(true_box)) * iouOut.value[2]

\* C7 witness: two boxes that touch along an edge only, scored exactly 0
C7_Witness ==
    /\ iouPc = "done"
    /\ pred_box = <<0, 0, 1, 1>>
    /\ true_box = <<1, 0, 2, 1>>
    /\ iouOut = Return(<<0, 1>>)


(***************************************************************************)
(* ValidationPipeline.match_rooms and calculate_metrics                    *)
(*                                                                         *)
(* A room of the scoring pipeline is [id, bounding_box] with the box a     *)
(* tuple of integers; ground-truth indices are 1-based, and best_gt_idx 0  *)
(* stands for Python's -1 with best_match None.                            *)
(***************************************************************************)
Room(i, b) == [id |-> i, bounding_box |-> b]

NoBest == [best_gt_idx |-> 0, best_iou |-> Zero]

\* the candidate test with "iou >= best_iou": the last of equal candidates wins
is_better_last_wins(iou, best, thr) ==
    FracGe(iou, best.best_iou) /\ FracGt(iou, Zero) /\ FracGe(iou, thr)

\* a comparison that wants the IoU above the threshold
is_better_above_threshold(iou, best, thr) ==
    FracGt(iou, best.best_iou) /\ FracGt(iou, thr)

\* if iou > best_iou and iou >= iou_threshold
is_better(iou, best, thr) == FracGt(iou, best.best_iou) /\ FracGe(iou, thr)

RECURSIVE inner_loop(_, _, _, _, _, _)
\* the rest of one pass of the inner loop, o being what calculate_iou gave
consider_candidate(o, pred_room, gts, used, thr, idx, best) ==
    IF o.raised
    THEN Raise(o.exc, best)
    ELSE IF is_better(o.value, best, thr)
    THEN inner_loop(pred_room, gts, used, thr, idx + 1,
                    [best_gt_idx |-> idx, best_iou |-> o.value])
    ELSE inner_loop(pred_room, gts, used, thr, idx + 1, best)

\* for idx, gt_room in enumerate(ground_truth_rooms): from idx on
inner_loop(pred_room, gts, used, thr, idx, best) ==
    IF idx > Len(gts)
    THEN Return(best)
    ELSE IF idx \in used
    THEN inner_loop(pred_room, gts, used, thr, idx + 1, best)
    ELSE consider_candidate(calculate_iou(pred_room.bounding_box, gts[idx].bounding_box),
                            pred_room, gts, used, thr, idx, best)

\* the end of one pass of the outer loop that forgets used_gt_indices.add
record_best_match_no_mark(o, st, pred_room, gts) ==
    IF o.raised THEN Raise(o.exc, st)
    ELSE IF o.value.best_gt_idx # 0
    THEN Return([matches |-> Append(st.matches,
                                    [pred |-> pred_room,
                                     gt |-> gts[o.value.best_gt_idx],
                                     iou |-> o.value.best_iou]),
                 used_gt_indices |-> st.used_gt_indices])
    ELSE Return(st)

\* if best_match: matches.append(best_match); used_gt_indices.add(best_gt_idx)
\* o is what the inner loop gave, st is [matches, used_gt_indices]
record_best_match(o, st, pred_room, gts) ==
    IF o.raised THEN Raise(o.exc, st)
    ELSE IF o.value.best_gt_idx # 0
    THEN Return([matches |-> Append(st.matches,
                                    [pred |-> pred_room,
                                     gt |-> gts[o.value.best_gt_idx],
                                     iou |-> o.value.best_iou]),
                 used_gt_indices |-> st.used_gt_indices \cup {o.value.best_gt_idx}])
    ELSE Return(st)

\* one pass of the outer loop
match_iteration(st, pred_room, gts, thr) ==
    record_best_match(inner_loop(pred_room, gts, st.used_gt_indices, thr, 1, NoBest),
                      st, pred_room, gts)

RECURSIVE match_rooms_from(_, _, _, _, _)
\* the outer loop after pass i gave o
match_rooms_next(o, preds, gts, thr, i) ==
    IF o.raised THEN Raise(o.exc, <<>>)
    ELSE match_rooms_from(preds, gts, thr, i + 1, o.value)

match_rooms_from(preds, gts, thr, i, st) ==
    IF i > Len(preds)
    THEN Return(st.matches)
    ELSE match_rooms_next(match_iteration(st, preds[i], gts, thr), preds, gts, thr, i)

match_rooms(preds, gts, thr) ==
    match_rooms_from(preds, gts, thr, 1, [matches |-> <<>>, used_gt_indices |-> {}])

\* Python float arithmetic on fractions; <<0, 0>> marks a ZeroDivisionError
DivByZero == <<0, 0>>

IsDivByZero(a) == a[2] = 0

PyDiv(a, b) ==
    IF IsDivByZero(a) \/ IsDivByZero(b) \/ b[1] = 0 THEN DivByZero
    ELSE Frac(a[1] * b[2], a[2] * b[1])

PyAdd(a, b) ==
    IF IsDivByZero(a) \/ IsDivByZero(b) THEN DivByZero
    ELSE Frac(a[1] * b[2] + b[1] * a[2], a[2] * b[2])

PyMul(a, b) ==
    IF IsDivByZero(a) \/ IsDivByZero(b) THEN DivByZero
    ELSE Frac(a[1] * b[1], a[2] * b[2])

PyFloat(n) == <<n, 1>>

RECURSIVE PySum(_)
PySum(fs) == IF fs = <<>> THEN Zero ELSE PyAdd(fs[1], PySum(Tail(fs)))

DEFAULT_IOU_THRESHOLD == <<1, 2>>

MetricNames == {"average_iou", "detection_rate", "false_positive_rate",
                "precision", "recall", "f1_score"}

\* precision without its "if predicted_rooms" guard
precision_unguarded(preds, ms) == PyDiv(PyFloat(Len(ms)), PyFloat(Len(preds)))

\* precision = len(matches) / len(predicted_rooms) if predicted_rooms else 0.0
precision(preds, ms) ==
    IF preds # <<>> THEN PyDiv(PyFloat(Len(ms)), PyFloat(Len(preds))) ELSE Zero

detection_rate(gts, ms) ==
    IF gts # <<>> THEN PyDiv(PyFloat(Len(ms)), PyFloat(Len(gts))) ELSE Zero

avg_iou(ious) == IF ious # <<>> THEN PyDiv(PySum(ious), PyFloat(Len(ious))) ELSE Zero

false_positive_rate(preds, ms) ==
    IF preds # <<>> THEN PyDiv(PyFloat(Len(preds) - Len(ms)), PyFloat(Len(preds))) ELSE Zero

f1_score(p, r) ==
    IF FracGt(PyAdd(p, r), Zero)
    THEN PyDiv(PyMul(PyFloat(2), PyMul(p, r)), PyAdd(p, r))
    ELSE Zero

\* the returned dict; a float that could not be computed raises instead
metrics_dict(preds, gts, ms, ious, p, r) ==
    [total_ground_truth |-> Len(gts), total_detected |-> Len(preds),
     matched |-> Len(ms), false_positives |-> Len(preds) - Len(ms),
     false_negatives |-> Len(gts) - Len(ms), average_iou |-> avg_iou(ious),
     detection_rate |-> detection_rate(gts, ms),
     false_positive_rate |-> false_positive_rate(preds, ms),
     precision |-> p, recall |-> r, f1_score |-> f1_score(p, r),
     ious |-> ious]

return_metrics(m) ==
    IF \E k \in MetricNames : IsDivByZero(m[k])
    THEN Raise(Exc("ZeroDivisionError", <<"division by zero">>), <<>>)
    ELSE Return(m)

\* calculate_metrics after matches = match_rooms(...) has returned or raised o
metrics_of_matches(o, preds, gts) ==
    IF o.raised THEN Raise(o.exc, <<>>)
    ELSE return_metrics(metrics_dict(preds, gts, o.value,
                                     [i \in DOMAIN o.value |-> o.value[i].iou],
                                     precision(preds, o.value),
                                     detection_rate(gts, o.value)))

calculate_metrics(preds, gts) ==
    metrics_of_matches(match_rooms(preds, gts, DEFAULT_IOU_THRESHOLD), preds, gts)


(***************************************************************************)
(* One pair of room lists through match_rooms, step by step, or through    *)
(* calculate_metrics                                                       *)
(***************************************************************************)
MaxPred == 2

MaxGt == 2

MatchBoxes == {<<0, 0, 2, 1>>, <<0, 0, 1, 1>>, <<1, 0, 2, 1>>, <<0, 0, 2, 2>>}

Thresholds == {<<-1, 2>>, <<0, 1>>, <<1, 2>>, <<1, 1>>}

\* room lists whose ids are the positions in the list
RoomListsUpTo(n) ==
    UNION {{[i \in 1..k |-> Room(i, bs[i])] : bs \in [1..k -> MatchBoxes]} : k \in 0..n}

InitScore ==
    /\ predicted_rooms \in RoomListsUpTo(MaxPred)
    /\ ground_truth_rooms \in RoomListsUpTo(MaxGt)
    /\ iou_threshold \in Thresholds
    /\ matches = <<>> /\ used_gt_indices = {} /\ mI = 0
    /\ scPc = "call"
    /\ metrics = Return(<<>>)
    /\ scRestIdle

MatchRoomsCall ==
    /\ scPc = "call"
    /\ matches' = <<>>
    /\ used_gt_indices' = {}
    /\ mI' = 0
    /\ scPc' = "matching"
    /\ UNCHANGED <<predicted_rooms, ground_truth_rooms, iou_threshold, metrics, scRest>>

\* one pass of "for pred_room in predicted_rooms"
MatchIteration ==
    /\ scPc = "matching"
    /\ mI < Len(predicted_rooms)
    /\ \E o \in {match_iteration([matches |-> matches, used_gt_indices |-> used_gt_indices],
                                 predicted_rooms[mI + 1], ground_truth_rooms, iou_threshold)} :
           IF o.raised
           THEN /\ scPc' = "raised"
                /\ UNCHANGED <<matches, used_gt_indices, mI>>
           ELSE /\ matches' = o.value.matches
                /\ used_gt_indices' = o.value.used_gt_indices
                /\ mI' = mI + 1
                /\ scPc' = "matching"
    /\ UNCHANGED <<predicted_rooms, ground_truth_rooms, iou_threshold, metrics, scRest>>

MatchReturn ==
    /\ scPc = "matching"
    /\ mI = Len(predicted_rooms)
    /\ scPc' = "returned"
    /\ UNCHANGED <<predicted_rooms, ground_truth_rooms, iou_threshold,
                   matches, used_gt_indices, mI, metrics, scRest>>

CalculateMetricsCall ==
    /\ scPc = "call"
    /\ metrics' = calculate_metrics(predicted_rooms, ground_truth_rooms)
    /\ scPc' = "metrics"
    /\ UNCHANGED <<predicted_rooms, ground_truth_rooms, iou_threshold,
                   matches, used_gt_indices, mI, scRest>>

NextScore == MatchRoomsCall \/ MatchIteration \/ MatchReturn \/ CalculateMetricsCall

SpecScore == InitScore /\ [][NextScore]_vars

(***************************************************************************)
(* Properties of match_rooms and calculate_metrics                         *)
(***************************************************************************)
InMatchRooms == scPc \in {"matching", "returned"}

\* C5: at every point of the matching loop, and at the end, each
\* ground-truth room (by position) and each predicted room is in at most one
\* match, so len(matches) <= min(len(predicted), len(ground_truth)).
C5_AtMostOnce ==
    InMatchRooms =>
        /\ \A i, j \in DOMAIN matches :
              i # j => /\ matches[i].gt.id # matches[j].gt.id
                       /\ matches[i].pred.id # matches[j].pred.id
        /\ \A i \in DOMAIN matches :
              /\ matches[i].gt = ground_truth_rooms[matches[i].gt.id]
              /\ matches[i].pred = predicted_rooms[matches[i].pred.id]
              /\ matches[i].pred.id <= mI
        /\ Len(matches) <= Min2(Len(predicted_rooms), Len(ground_truth_rooms))

\* C5 witness: two predictions that both reach the threshold on the only
\* ground-truth room; one match is recorded
C5_Witness ==
    /\ scPc = "returned"
    /\ Len(predicted_rooms) = 2
    /\ Len(ground_truth_rooms) = 1
    /\ \A k \in 1..2 :
          FracGe(calculate_iou(predicted_rooms[k].bounding_box,
                               ground_truth_rooms[1].bounding_box).value, iou_threshold)
    /\ iou_threshold = <<1, 2>>
    /\ Len(matches) = 1

\* shared area over covered area, by counting grid cells
CellIoU(a, b) ==
    <<Cardinality(Cells(a) \cap Cells(b)), Cardinality(Cells(a) \cup Cells(b))>>

PairIoU(k, j) ==
    CellIoU(predicted_rooms[k].bounding_box, ground_truth_rooms[j].bounding_box)

\* the ground-truth position matched to prediction k, 0 when unmatched
MatchedGt(k) ==
    IF \E i \in DOMAIN matches : matches[i].pred.id = k
    THEN matches[CHOOSE i \in DOMAIN matches : matches[i].pred.id = k].gt.id
    ELSE 0

\* the ground-truth positions taken by predictions before k
UsedBefore(k) == {matches[i].gt.id : i \in {x \in DOMAIN matches : matches[x].pred.id < k}}

\* the highest IoU in cand, the first position among equals; 0 when cand is empty
GreedyChoice(k, cand) ==
    IF cand = {} THEN 0
    ELSE CHOOSE j \in cand :
            \A j2 \in cand :
                \/ FracGt(PairIoU(k, j), PairIoU(k, j2))
                \/ (~FracGt(PairIoU(k, j2), PairIoU(k, j)) /\ j <= j2)

InInputOrder ==
    \A i, j \in DOMAIN matches : i < j => matches[i].pred.id < matches[j].pred.id

\* C6 as stated: each prediction, in input order, takes the unused
\* ground-truth room of highest IoU among those with IoU >= threshold (for
\* every threshold), first position among equals, and stays unmatched only
\* when no unused room reaches the threshold.
C6_GreedyAtOrAbove ==
    InMatchRooms =>
        /\ InInputOrder
        /\ \A k \in 1..mI :
              MatchedGt(k) =
                  GreedyChoice(k, {j \in DOMAIN ground_truth_rooms \ UsedBefore(k) :
                                      FracGe(PairIoU(k, j), iou_threshold)})

\* C6 as amended: a ground-truth room qualifies when its IoU is at or above
\* the threshold and above 0; IoU equal to the threshold qualifies for every
\* positive threshold, and at threshold 0 a room with IoU 0 does not.
C6_GreedyPositive ==
    InMatchRooms =>
        /\ InInputOrder
        /\ \A k \in 1..mI :
              MatchedGt(k) =
                  GreedyChoice(k, {j \in DOMAIN ground_truth_rooms \ UsedBefore(k) :
                                      /\ FracGe(PairIoU(k, j), iou_threshold)
                                      /\ FracGt(PairIoU(k, j), Zero)})
        /\ \A i \in DOMAIN matches :
              FracGe(matches[i].iou, PairIoU(matches[i].pred.id, matches[i].gt.id))
              /\ FracGe(PairIoU(matches[i].pred.id, matches[i].gt.id), matches[i].iou)

\* C6 witness: two ground-truth rooms with the same IoU, equal to the
\* threshold; the prediction is matched to the first
C6_Witness ==
    /\ scPc = "returned"
    /\ Len(predicted_rooms) = 1
    /\ Len(ground_truth_rooms) = 2
    /\ iou_threshold = <<1, 2>>
    /\ PairIoU(1, 1) = <<1, 2>>
    /\ PairIoU(1, 2) = <<1, 2>>
    /\ Len(matches) = 1
    /\ matches[1].gt.id = 1

\* C8: with P predictions, G ground-truth rooms and M matches:
\* detection_rate = recall = M/G (0 if G = 0), precision = M/P (0 if P = 0),
\* false_positive_rate = (P-M)/P (0 if P = 0),
\* f1 = 2*precision*recall/(precision+recall) (0 if both are 0),
\* false_positives = P-M, false_negatives = G-M, and no division by zero.
C8_Metrics ==
    scPc = "metrics" =>
        /\ ~metrics.raised
        /\ LET m == metrics.value
               P == Len(predicted_rooms)
               G == Len(ground_truth_rooms)
               M == m.matched
               p == m.precision
               r == m.recall
               f == m.f1_score
               fpr == m.false_positive_rate
           IN  /\ M = Len(match_rooms(predicted_rooms, ground_truth_rooms, <<1, 2>>).value)
               /\ m.detection_rate = r
               /\ r[2] > 0 /\ p[2] > 0 /\ f[2] > 0 /\ fpr[2] > 0
               /\ IF G = 0 THEN r[1] = 0 ELSE r[1] * G = M * r[2]
               /\ IF P = 0 THEN p[1] = 0 ELSE p[1] * P = M * p[2]
               /\ IF P = 0 THEN fpr[1] = 0 ELSE fpr[1] * P = (P - M) * fpr[2]
               /\ IF p[1] = 0 /\ r[1] = 0 THEN f[1] = 0
                  ELSE f[1] * (p[1] * r[2] + r[1] * p[2]) = 2 * p[1] * r[1] * f[2]
               /\ m.false_positives = P - M
               /\ m.false_negatives = G - M

\* C8 witness: no predictions against a non-empty ground truth
C8_Witness ==
    /\ scPc = "metrics"
    /\ predicted_rooms = <<>>
    /\ ground_truth_rooms # <<>>
    /\ ~metrics.raised
    /\ metrics.value.precision = <<0, 1>>
    /\ metrics.value.f1_score = <<0, 1>>


(***************************************************************************)
(* ValidationPipeline.run_validation_suite                                 *)
(*                                                                         *)
(* The manifest's levels are flattened, in order, into a sequence of       *)
(* [id, level]; files[id] holds the two files of blueprint id, each        *)
(* [exists, data], data being the "ground_truth" or "rooms" list.          *)
(***************************************************************************)
File(d) == [exists |-> TRUE, data |-> d]

Missing == [exists |-> FALSE, data |-> <<>>]

validate_blueprint(predicted_file, ground_truth_file) ==
    calculate_metrics(predicted_file.data, ground_truth_file.data)

\* all_metrics.append(metrics) with blueprint_id and level set, o being what
\* validate_blueprint gave
append_metrics(o, metrics_so_far, blueprint_info) ==
    IF o.raised
    THEN [out |-> Raise(o.exc, metrics_so_far), warning |-> <<>>]
    ELSE [out |-> Return(Append(metrics_so_far,
                                o.value @@ [blueprint_id |-> blueprint_info.id,
                                            level |-> blueprint_info.level])),
          warning |-> <<>>]

\* the loop body that scores a blueprint without predictions as if it had none
process_blueprint_missing_as_empty(metrics_so_far, blueprint_info, fs) ==
    IF ~fs.gt.exists
    THEN [out |-> Return(metrics_so_far),
          warning |-> <<<<"Warning: Ground truth not found for", blueprint_info.id>>>>]
    ELSE append_metrics(validate_blueprint(fs.pred, fs.gt), metrics_so_far, blueprint_info)

\* the body of "for blueprint_info in ...": the new all_metrics, and what is printed
process_blueprint(metrics_so_far, blueprint_info, fs) ==
    IF ~fs.gt.exists
    THEN [out |-> Return(metrics_so_far),
          warning |-> <<<<"Warning: Ground truth not found for", blueprint_info.id>>>>]
    ELSE IF ~fs.pred.exists
    THEN [out |-> Return(metrics_so_far),
          warning |-> <<<<"Warning: Predictions not found for", blueprint_info.id>>>>]
    ELSE append_metrics(validate_blueprint(fs.pred, fs.gt), metrics_so_far, blueprint_info)

\* sum(m[key] for m in all_metrics) / len(all_metrics)
Average(ms, key) == PyDiv(PySum([i \in DOMAIN ms |-> ms[i][key]]), PyFloat(Len(ms)))

NoValidations == [error |-> "No validations performed"]

suite_aggregate(ms) ==
    IF ms = <<>>
    THEN Return(NoValidations)
    ELSE LET a == [total_blueprints |-> Len(ms),
                   average_iou |-> Average(ms, "average_iou"),
                   average_detection_rate |-> Average(ms, "detection_rate"),
                   average_precision |-> Average(ms, "precision"),
                   average_recall |-> Average(ms, "recall"),
                   average_f1_score |-> Average(ms, "f1_score"),
                   blueprint_metrics |-> ms]
         IN  IF \E k \in {"average_iou", "average_detection_rate", "average_precision",
                          "average_recall", "average_f1_score"} : IsDivByZero(a[k])
             THEN Raise(Exc("ZeroDivisionError", <<"division by zero">>), <<>>)
             ELSE Return(a)

MaxBlueprints == 3

GtData == {<<>>, <<Room(1, <<0, 0, 2, 1>>)>>,
           <<Room(1, <<0, 0, 1, 1>>), Room(2, <<1, 0, 2, 1>>)>>}

PredData == {<<>>, <<Room(1, <<0, 0, 2, 1>>)>>}

BlueprintFiles ==
    [gt : {Missing} \cup {File(d) : d \in GtData},
     pred : {Missing} \cup {File(d) : d \in PredData}]

LevelOf(i) == IF i = 1 THEN "level_1_simple" ELSE "level_2_standard"

InitSuite ==
    /\ manifest_exists \in BOOLEAN
    /\ \E n \in 0..MaxBlueprints :
          /\ manifest = [i \in 1..n |-> [id |-> i, level |-> LevelOf(i)]]
          /\ files \in [1..n -> BlueprintFiles]
          /\ ~manifest_exists => n = 0
    /\ all_metrics = <<>> /\ sI = 0
    /\ suPc = "call"
    /\ aggregate = Return(<<>>)
    /\ printed = <<>>
    /\ suRestIdle

RunValidationSuiteCall ==
    /\ suPc = "call"
    /\ IF ~manifest_exists
       THEN /\ aggregate' = Raise(Exc("FileNotFoundError", <<"Manifest not found">>), <<>>)
            /\ suPc' = "raised"
       ELSE /\ suPc' = "loop"
            /\ UNCHANGED aggregate
    /\ all_metrics' = <<>>
    /\ sI' = 0
    /\ UNCHANGED <<manifest_exists, manifest, files, printed, suRest>>

ProcessBlueprint ==
    /\ suPc = "loop"
    /\ sI < Len(manifest)
    /\ \E r \in {process_blueprint(all_metrics, manifest[sI + 1],
                                    files[manifest[sI + 1].id])} :
           /\ printed' = printed \o r.warning
           /\ IF r.out.raised
              THEN /\ aggregate' = Raise(r.out.exc, <<>>)
                   /\ suPc' = "raised"
                   /\ UNCHANGED <<all_metrics, sI>>
              ELSE /\ all_metrics' = r.out.value
                   /\ sI' = sI + 1
                   /\ UNCHANGED <<aggregate, suPc>>
    /\ UNCHANGED <<manifest_exists, manifest, files, suRest>>

SuiteAggregate ==
    /\ suPc = "loop"
    /\ sI = Len(manifest)
    /\ aggregate' = suite_aggregate(all_metrics)
    /\ suPc' = IF aggregate'.raised THEN "raised" ELSE "returned"
    /\ UNCHANGED <<manifest_exists, manifest, files, all_metrics, sI, printed, suRest>>

NextSuite == RunValidationSuiteCall \/ ProcessBlueprint \/ SuiteAggregate

SpecSuite == InitSuite /\ [][NextSuite]_vars

(***************************************************************************)
(* Properties of run_validation_suite                                      *)
(***************************************************************************)
Scoreable(info) == files[info.id].gt.exists /\ files[info.id].pred.exists

RawAdd(a, b) == <<a[1] * b[2] + b[1] * a[2], a[2] * b[2]>>

RECURSIVE RawSum(_)
RawSum(fs) == IF fs = <<>> THEN <<0, 1>> ELSE RawAdd(fs[1], RawSum(Tail(fs)))

\* avg is the arithmetic mean of the fractions fs
IsMeanOf(avg, fs) ==
    /\ avg[2] > 0
    /\ avg[1] * Len(fs) * RawSum(fs)[2] = RawSum(fs)[1] * avg[2]

\* C9: with a manifest present and any pattern of present and missing
\* files, run_validation_suite never fails, scores exactly the blueprints
\* that have both files (in manifest order), reports their number as
\* total_blueprints and the arithmetic mean of each metric over them, and
\* returns "No validations performed" when none is scoreable.
C9_SuiteScoring ==
    manifest_exists =>
        /\ suPc # "raised"
        /\ suPc = "returned" =>
              LET scored == SelectSeq(manifest, Scoreable)
                  a == aggregate.value
              IN  IF scored = <<>>
                  THEN aggregate = Return([error |-> "No validations performed"])
                  ELSE /\ ~aggregate.raised
                       /\ a.total_blueprints = Len(scored)
                       /\ Len(a.blueprint_metrics) = Len(scored)
                       /\ \A i \in DOMAIN scored :
                             /\ a.blueprint_metrics[i].blueprint_id = scored[i].id
                             /\ a.blueprint_metrics[i].precision
                                   = calculate_metrics(files[scored[i].id].pred.data,
                                                       files[scored[i].id].gt.data).value.precision
                       /\ IsMeanOf(a.average_iou,
                                   [i \in DOMAIN scored |-> a.blueprint_metrics[i].average_iou])
                       /\ IsMeanOf(a.average_detection_rate,
                                   [i \in DOMAIN scored |-> a.blueprint_metrics[i].detection_rate])
                       /\ IsMeanOf(a.average_precision,
                                   [i \in DOMAIN scored |-> a.blueprint_metrics[i].precision])
                       /\ IsMeanOf(a.average_recall,
                                   [i \in DOMAIN scored |-> a.blueprint_metrics[i].recall])
                       /\ IsMeanOf(a.average_f1_score,
                                   [i \in DOMAIN scored |-> a.blueprint_metrics[i].f1_score])
        /\ Len(printed) + Len(all_metrics) = sI

\* C9 witness: three blueprints, one without ground truth, one without
\* predictions, one scored
C9_Witness ==
    /\ suPc = "returned"
    /\ Len(manifest) = 3
    /\ ~files[1].gt.exists
    /\ files[2].gt.exists /\ ~files[2].pred.exists
    /\ Scoreable(manifest[3])
    /\ ~aggregate.raised
    /\ aggregate.value.total_blueprints = 1
    /\ Len(printed) = 2


(***************************************************************************)
(* ResponseParser                                                          *)
(*                                                                         *)
(* A text is a sequence of tokens [ch, val].  Punctuation that the         *)
(* patterns or the JSON grammar look at is one token each: "fence" (three  *)
(* backticks), "[", "]", "{", "}", ","; "json" is the tag after a fence;   *)
(* "ws" is a run of                                                        *)
(* whitespace; "word" is prose free of brackets and backticks; "num" is a  *)
(* number with value val, "str" a string literal, "null" the literal;      *)
(* "id:" is the member "id": val and "bounding_box:" the key and colon of  *)
(* that member.                                                            *)
(***************************************************************************)
Tok(ch, val) == [ch |-> ch, val |-> val]

T(ch) == Tok(ch, 0)

\* a response that is a str
Str(text) == [kind |-> "str", text |-> text]

\* the value None in place of a response
NoneResponse == [kind |-> "None", text |-> <<>>]

\* \s* from position i: the first position that is not whitespace
RECURSIVE SkipWs(_, _)
SkipWs(ts, i) ==
    IF i <= Len(ts) /\ ts[i].ch = "ws" THEN SkipWs(ts, i + 1) ELSE i

ChAt(ts, i) == IF i >= 1 /\ i <= Len(ts) THEN ts[i].ch ELSE "<end>"

\* where the array of ```(?:json)?\s*(\[.*?\])\s*``` starts when the pattern
\* is tried at position i; 0 when there is no "```...[" there
FenceArrayStart(ts, i) ==
    IF ChAt(ts, i) # "fence" THEN 0
    ELSE IF ChAt(ts, SkipWs(ts, IF ChAt(ts, i + 1) = "json" THEN i + 2 ELSE i + 1)) = "["
    THEN SkipWs(ts, IF ChAt(ts, i + 1) = "json" THEN i + 2 ELSE i + 1)
    ELSE 0

\* the ends e of \[.*?\] from s for which \s*``` follows
FenceArrayEnds(ts, s) ==
    {e \in (s + 1)..Len(ts) : ts[e].ch = "]" /\ ChAt(ts, SkipWs(ts, e + 1)) = "fence"}

\* the positions where the fenced pattern matches
FenceMatches(ts) ==
    {i \in 1..Len(ts) : FenceArrayStart(ts, i) # 0
                        /\ FenceArrayEnds(ts, FenceArrayStart(ts, i)) # {}}

\* the positions where (\[.*?\]) matches
BracketMatches(ts) ==
    {i \in 1..Len(ts) : ts[i].ch = "[" /\ \E e \in (i + 1)..Len(ts) : ts[e].ch = "]"}

Least(S) == CHOOSE x \in S : \A y \in S : x <= y

\* str.strip()
RECURSIVE strip(_)
strip(ts) ==
    IF ts = <<>> THEN ts
    ELSE IF ts[1].ch = "ws" THEN strip(Tail(ts))
    ELSE IF ts[Len(ts)].ch = "ws" THEN strip(SubSeq(ts, 1, Len(ts) - 1))
    ELSE ts

\* group(1) of the fenced match that re.search finds: leftmost start,
\* shortest array
fenced_group(ts, s) == SubSeq(ts, s, Least(FenceArrayEnds(ts, s)))

\* group(1) of the bracket match: leftmost "[", up to the first "]" after it
bracket_group(ts, s) ==
    SubSeq(ts, s, Least({e \in (s + 1)..Len(ts) : ts[e].ch = "]"}))

\* extract_json_from_response with the two patterns tried in the other order
extract_json_bracket_first(resp) ==
    IF resp.kind # "str"
    THEN Raise(Exc("TypeError", <<"expected string or bytes-like object">>), <<>>)
    ELSE IF BracketMatches(resp.text) # {}
    THEN Return(bracket_group(resp.text, Least(BracketMatches(resp.text))))
    ELSE IF FenceMatches(resp.text) # {}
    THEN Return(fenced_group(resp.text,
                             FenceArrayStart(resp.text, Least(FenceMatches(resp.text)))))
    ELSE Return(strip(resp.text))

extract_json_from_response(resp) ==
    IF resp.kind # "str"
    THEN Raise(Exc("TypeError", <<"expected string or bytes-like object">>), <<>>)
    ELSE IF FenceMatches(resp.text) # {}
    THEN Return(fenced_group(resp.text,
                             FenceArrayStart(resp.text, Least(FenceMatches(resp.text)))))
    ELSE IF BracketMatches(resp.text) # {}
    THEN Return(bracket_group(resp.text, Least(BracketMatches(resp.text))))
    ELSE Return(strip(resp.text))

(***************************************************************************)
(* json.loads on a token text.  A decoded value is [t, n, items, keys, id, *)
(* bb]: t is "num", "str", "null", "arr" (items) or "obj" (keys, id and    *)
(* bb, the value of "bounding_box" as a sequence of 0 or 1 value).         *)
(***************************************************************************)
JV(t, n, items) == [t |-> t, n |-> n, items |-> items, keys |-> {}, id |-> 0, bb |-> <<>>]

JObj(keys, id, bb) ==
    [t |-> "obj", n |-> 0, items |-> <<>>, keys |-> keys, id |-> id, bb |-> bb]

Parsed(v, next) == [ok |-> TRUE, v |-> v, next |-> next, msg |-> <<>>]

NotParsed(diagnostic) ==
    [ok |-> FALSE, v |-> JV("null", 0, <<>>), next |-> 0, msg |-> <<diagnostic>>]

RECURSIVE parse_value(_, _)
RECURSIVE parse_items(_, _, _)
RECURSIVE parse_members(_, _, _)

\* after one element r of an array: "," and more, or "]"
parse_items_next(r, ts, j, acc) ==
    IF ~r.ok THEN r
    ELSE IF ChAt(ts, j) = ","
    THEN parse_items(ts, j + 1, Append(acc, r.v))
    ELSE IF ChAt(ts, j) = "]"
    THEN Parsed(JV("arr", 0, Append(acc, r.v)), j + 1)
    ELSE NotParsed("Expecting ',' delimiter")

parse_items_after(r, ts, acc) == parse_items_next(r, ts, SkipWs(ts, r.next), acc)

parse_items(ts, i, acc) == parse_items_after(parse_value(ts, i), ts, acc)

\* after one member of an object, obj being the object with that member set
parse_members_next(ts, j, obj) ==
    IF ChAt(ts, j) = ","
    THEN parse_members(ts, SkipWs(ts, j + 1), obj)
    ELSE IF ChAt(ts, j) = "}"
    THEN Parsed(obj, j + 1)
    ELSE NotParsed("Expecting ',' delimiter")

\* the value r of the member "bounding_box"
parse_bounding_box_member(r, ts, obj) ==
    IF ~r.ok THEN r
    ELSE parse_members_next(ts, SkipWs(ts, r.next),
                            JObj(obj.keys \cup {"bounding_box"}, obj.id, <<r.v>>))

parse_members(ts, i, obj) ==
    IF ChAt(ts, i) = "id:"
    THEN parse_members_next(ts, SkipWs(ts, i + 1),
                            JObj(obj.keys \cup {"id"}, ts[i].val, obj.bb))
    ELSE IF ChAt(ts, i) = "bounding_box:"
    THEN parse_bounding_box_member(parse_value(ts, i + 1), ts, obj)
    ELSE NotParsed("Expecting property name enclosed in double quotes")

parse_value_at(ts, i) ==
    IF ChAt(ts, i) = "num" THEN Parsed(JV("num", ts[i].val, <<>>), i + 1)
    ELSE IF ChAt(ts, i) \in {"str", "null"} THEN Parsed(JV(ts[i].ch, 0, <<>>), i + 1)
    ELSE IF ChAt(ts, i) = "["
    THEN IF ChAt(ts, SkipWs(ts, i + 1)) = "]"
         THEN Parsed(JV("arr", 0, <<>>), SkipWs(ts, i + 1) + 1)
         ELSE parse_items(ts, i + 1, <<>>)
    ELSE IF ChAt(ts, i) = "{"
    THEN IF ChAt(ts, SkipWs(ts, i + 1)) = "}"
         THEN Parsed(JObj({}, 0, <<>>), SkipWs(ts, i + 1) + 1)
         ELSE parse_members(ts, SkipWs(ts, i + 1), JObj({}, 0, <<>>))
    ELSE NotParsed("Expecting value")

parse_value(ts, i) == parse_value_at(ts, SkipWs(ts, i))

\* the whole text must be one value
json_loads_end(r, ts) ==
    IF ~r.ok THEN Raise(Exc("JSONDecodeError", r.msg), r.v)
    ELSE IF SkipWs(ts, r.next) <= Len(ts)
    THEN Raise(Exc("JSONDecodeError", <<"Extra data">>), r.v)
    ELSE Return(r.v)

json_loads(ts) == json_loads_end(parse_value(ts, 1), ts)

\* the Python value of a decoded bounding_box
PyBox(v) ==
    IF v.t = "arr"
    THEN ListBox([i \in DOMAIN v.items |->
                    IF v.items[i].t = "num" THEN Num(v.items[i].n) ELSE NotNum])
    ELSE NotAList

\* the Python value of one element of the decoded array
PyRecord(v) ==
    IF v.t = "obj"
    THEN DictRoom(v.keys, v.id, IF v.bb = <<>> THEN NotAList ELSE PyBox(v.bb[1]))
    ELSE OtherValue(IF v.t = "num" THEN "number"
                    ELSE IF v.t = "str" THEN "string"
                    ELSE IF v.t = "arr" THEN "list" ELSE "null", {})

\* parse_room_data without its isinstance(data, list) check
parse_room_data_unchecked(d) ==
    IF d.raised
    THEN Raise(Exc("ValueError", <<"Invalid JSON:">> \o d.exc.msg), <<>>)
    ELSE Return([i \in DOMAIN d.value.items |-> PyRecord(d.value.items[i])])

\* parse_room_data after json.loads gave d
parse_room_data_of(d) ==
    IF d.raised
    THEN Raise(Exc("ValueError", <<"Invalid JSON:">> \o d.exc.msg), <<>>)
    ELSE IF d.value.t # "arr"
    THEN Raise(Exc("ValueError", <<"Expected JSON array, got other type">>), <<>>)
    ELSE Return([i \in DOMAIN d.value.items |-> PyRecord(d.value.items[i])])

parse_room_data(json_str_) == parse_room_data_of(json_loads(json_str_))

\* sanitize_response after extract_json_from_response gave e
sanitize_response_of(e) ==
    IF e.raised THEN Raise(e.exc, <<>>) ELSE parse_room_data(e.value)

sanitize_response(resp) == sanitize_response_of(extract_json_from_response(resp))

(***************************************************************************)
(* One response text through extract_json_from_response or                 *)
(* sanitize_response.  The texts are what a model writes: a JSON array of  *)
(* records, bare or inside a fence, with or without prose around it, and   *)
(* texts without an array.                                                 *)
(***************************************************************************)
MaxRecords == 2

ExRecords ==
    {DictRoom({"id", "bounding_box"}, 1, NumBox(<<100, 200, 500, 600>>)),
     DictRoom({"id", "bounding_box"}, 2, NumBox(<<500, 200, 100, 600>>)),
     DictRoom({"id", "bounding_box"}, 2, NotAList),
     DictRoom({"id"}, 1, NotAList),
     OtherValue("number", {})}

RECURSIVE JoinWith(_, _)
JoinWith(parts, sep) ==
    IF parts = <<>> THEN <<>>
    ELSE IF Len(parts) = 1 THEN parts[1]
    ELSE parts[1] \o sep \o JoinWith(Tail(parts), sep)

\* the JSON text of a bounding_box value
dumps_box(b) ==
    IF b.is_list
    THEN <<T("[")>>
         \o JoinWith([i \in DOMAIN b.coords |->
                        <<IF b.coords[i].is_number THEN Tok("num", b.coords[i].value)
                          ELSE T("str")>>], <<T(",")>>)
         \o <<T("]")>>
    ELSE <<T("null")>>

\* the JSON text of one record
dumps_record(r) ==
    IF r.kind = "dict"
    THEN <<T("{")>>
         \o (IF "id" \in r.keys THEN <<Tok("id:", r.id)>> ELSE <<>>)
         \o (IF {"id", "bounding_box"} \subseteq r.keys THEN <<T(","), T("ws")>> ELSE <<>>)
         \o (IF "bounding_box" \in r.keys
             THEN <<T("bounding_box:")>> \o dumps_box(r.bounding_box) ELSE <<>>)
         \o <<T("}")>>
    ELSE IF r.kind = "number" THEN <<Tok("num", 5)>>
    ELSE IF r.kind = "string" THEN <<T("str")>>
    ELSE <<T("null")>>

\* the JSON text of an array of records
json_dumps(records) ==
    <<T("[")>>
    \o JoinWith([i \in DOMAIN records |-> dumps_record(records[i])], <<T(","), T("ws")>>)
    \o <<T("]")>>

Fenced(tag, body) == <<T("fence")>> \o tag \o <<T("ws")>> \o body \o <<T("ws"), T("fence")>>

RecordLists == SeqsUpTo(ExRecords, MaxRecords)

\* prose before the JSON: none, plain, or holding a bracketed span like "[see note]"
Prefixes == {<<>>, <<T("ws")>>, <<T("word"), T("ws")>>,
             <<T("word"), T("["), T("word"), T("]"), T("ws")>>}

Suffixes == {<<>>, <<T("ws")>>, <<T("ws"), T("word")>>}

ArrayBodies ==
    {json_dumps(rs) : rs \in RecordLists}
    \cup {Fenced(<<T("json")>>, json_dumps(rs)) : rs \in RecordLists}
    \cup {Fenced(<<>>, json_dumps(rs)) : rs \in RecordLists}

\* no array: nothing, prose, an object, a number, an array cut short, a
\* fenced object, a fence with another tag
OtherBodies ==
    {<<>>, <<T("word")>>, <<T("{"), Tok("id:", 1), T("}")>>, <<Tok("num", 5)>>,
     <<T("["), T("{"), Tok("id:", 1), T("}")>>,
     Fenced(<<T("json")>>, <<T("{"), Tok("id:", 1), T("}")>>),
     Fenced(<<T("word")>>, <<T("["), Tok("num", 5), T("]")>>)}

ParserTexts ==
    {Str(pre \o body \o suf) :
        pre \in Prefixes, body \in ArrayBodies \cup OtherBodies, suf \in Suffixes}
    \cup {NoneResponse}

InitParse ==
    /\ response \in ParserTexts
    /\ psPc = "call"
    /\ json_str = Return(<<>>)
    /\ psOut = Return(<<>>)
    /\ psRestIdle

ExtractJsonFromResponseCall ==
    /\ psPc = "call"
    /\ json_str' = extract_json_from_response(response)
    /\ psPc' = "extracted"
    /\ UNCHANGED <<response, psOut, psRest>>

SanitizeResponseCall ==
    /\ psPc = "call"
    /\ json_str' = extract_json_from_response(response)
    /\ psOut' = sanitize_response(response)
    /\ psPc' = "sanitized"
    /\ UNCHANGED <<response, psRest>>

NextParse ==
    \/ ExtractJsonFromResponseCall
    \/ SanitizeResponseCall

SpecParse == InitParse /\ [][NextParse]_vars

(***************************************************************************)
(* Properties of ResponseParser                                            *)
(***************************************************************************)
\* every record of the list holds a nested bounding_box array
AllBoxed(rs) ==
    /\ rs # <<>>
    /\ \A i \in DOMAIN rs :
          rs[i].kind = "dict" /\ "bounding_box" \in rs[i].keys /\ rs[i].bounding_box.is_list

\* C12: for a response whose whole text is a pure JSON array of room
\* records, each with a nested bounding_box array,
\* extract_json_from_response returns the text unchanged and
\* sanitize_response returns every record of the array.
C12_PureArrayUnchanged ==
    \A rs \in RecordLists :
        (AllBoxed(rs) /\ response = Str(json_dumps(rs))) =>
            /\ psPc = "extracted" => json_str = Return(response.text)
            /\ psPc = "sanitized" => psOut = Return(rs)

\* ts[s..e] is a bracketed span wrapped in a fence: "[" preceded by a fence,
\* an optional json tag and whitespace, "]" followed by whitespace and a fence
IsFencedSpan(ts, s, e) ==
    /\ s < e /\ ts[s].ch = "[" /\ ts[e].ch = "]"
    /\ \E i \in 1..(s - 1) :
          /\ ts[i].ch = "fence"
          /\ \A k \in (i + 1)..(s - 1) : ts[k].ch = "ws" \/ (k = i + 1 /\ ts[k].ch = "json")
    /\ \E j \in (e + 1)..Len(ts) :
          /\ ts[j].ch = "fence"
          /\ \A k \in (e + 1)..(j - 1) : ts[k].ch = "ws"

IsBracketSpan(ts, s, e) == s < e /\ ts[s].ch = "[" /\ ts[e].ch = "]"

\* out is ts without its leading and trailing whitespace
IsTrimmed(ts, out) ==
    /\ out = <<>> \/ (out[1].ch # "ws" /\ out[Len(out)].ch # "ws")
    /\ \E a \in 0..Len(ts) :
          /\ a + Len(out) <= Len(ts)
          /\ SubSeq(ts, a + 1, a + Len(out)) = out
          /\ \A k \in (1..a) \cup ((a + Len(out) + 1)..Len(ts)) : ts[k].ch = "ws"

\* the texts that hold one fenced array of records, with or without prose
\* before and after
FencedCases ==
    {[rs |-> rs, text |-> Str(pre \o Fenced(tag, json_dumps(rs)) \o suf)] :
        rs \in RecordLists, pre \in Prefixes, suf \in Suffixes,
        tag \in {<<>>, <<T("json")>>}}

ImageProcessor_preprocess_blueprint(img) ==
    IF img = "unsupported"
    THEN Raise(Exc("ValueError", <<"Unsupported image type">>), "none")
    ELSE IF img = "bytes_corrupt"
    THEN Raise(Exc("UnidentifiedImageError", <<"cannot identify image file">>), "none")
    ELSE Return("processed_image")

\* a selection that looks at the complexity first
get_prompt_complexity_first(cplx, small_text) ==
    IF cplx = "complex" THEN "COMPLEX_BLUEPRINT_PROMPT"
    ELSE IF cplx = "simple" THEN "ROOM_DETECTION_PROMPT"
    ELSE IF small_text THEN "SMALL_TEXT_PROMPT"
    ELSE "ROOM_DETECTION_PROMPT_WITH_EXAMPLES"

get_prompt_for_blueprint(cplx, small_text) ==
    IF small_text THEN "SMALL_TEXT_PROMPT"
    ELSE IF cplx = "complex" THEN "COMPLEX_BLUEPRINT_PROMPT"
    ELSE IF cplx = "simple" THEN "ROOM_DETECTION_PROMPT"
    ELSE "ROOM_DETECTION_PROMPT_WITH_EXAMPLES"

ExceptionTypes == {"ValueError", "TypeError", "AttributeError", "KeyError", "OSError",
                   "UnidentifiedImageError", "FileNotFoundError", "ZeroDivisionError",
                   "ClientError", "ReadTimeoutError", "JSONDecodeError"}

\* an except clause that names ValueError only
ExceptValueErrorOnly(e) == IsValueError(e)

\* "except Exception as e" of execute
ExceptException(e) == e.type \in ExceptionTypes

(***************************************************************************)
(* One call of execute, stage by stage                                     *)
(***************************************************************************)
MaxRetries == 3

Images == {"pil_image", "bytes_corrupt", "unsupported"}

Complexities == {"simple", "standard", "complex", "unknown"}

\* the complexity and has_small_text arguments of the calls: the defaults,
\* and a complex blueprint with small text
PromptArguments == {<<"standard", FALSE>>, <<"complex", TRUE>>}

Timeouts == {2, 60}

\* the error codes of the ClientError a call may end with
ClientErrorCodes == {"ThrottlingException", "ServiceUnavailableException"}

CallSeconds == {0, 1}

\* the records the model writes: a valid room, an inverted one, a number
ModelRecords ==
    {DictRoom({"id", "bounding_box"}, 1, NumBox(<<100, 200, 500, 600>>)),
     DictRoom({"id", "bounding_box"}, 2, NumBox(<<500, 200, 100, 600>>)),
     OtherValue("number", {})}

\* result['content'][0]['text']: what the model wrote
Responses ==
    {Str(body) : body \in {json_dumps(rs) : rs \in SeqsUpTo(ModelRecords, MaxRecords)}
                          \cup {Fenced(<<T("json")>>, json_dumps(rs)) :
                                   rs \in SeqsUpTo(ModelRecords, MaxRecords)}
                          \cup {<<T("word")>>, <<T("{"), Tok("id:", 1), T("}")>>}}

InitExecute ==
    /\ image \in Images
    /\ \E a \in PromptArguments : complexity = a[1] /\ has_small_text = a[2]
    /\ bedrock_client \in [max_retries : -1..MaxRetries, timeout : Timeouts]
    /\ clock = 0 /\ start_time = 0
    /\ exPc = "call"
    /\ prompt = "unset" /\ attempt = 0
    /\ response_text = NoResponse /\ rooms_data = <<>>
    /\ envelope = NoEnvelope
    /\ exRaised = [stage |-> "none", exc |-> NoExc]
    /\ exLog = <<>>
    /\ invoke_start = 0 /\ calls = <<>>
    /\ exRestIdle

exInputs == <<image, complexity, has_small_text, bedrock_client>>

\* a handler that notes the exception and lets the pipeline go on
FailAndGoOn(stage, e, now) ==
    /\ exRaised' = [stage |-> stage, exc |-> e]
    /\ exPc' = IF stage = "preprocess" THEN "preprocessed"
               ELSE IF stage = "invoke" THEN "responded"
               ELSE IF stage = "parse" THEN "parsed" ELSE "returned"
    /\ UNCHANGED envelope

\* a handler that puts the parsed records into the failure envelope
FailKeepRooms(stage, e, now) ==
    /\ exRaised' = [stage |-> stage, exc |-> e]
    /\ envelope' = [success |-> FALSE, rooms |-> rooms_data,
                    processing_time |-> now - start_time, error |-> e.msg]
    /\ exPc' = "returned"

\* the except clause of execute, reached from stage with exception e at time now
Fail(stage, e, now) ==
    /\ exRaised' = [stage |-> stage, exc |-> e]
    /\ IF ExceptException(e)
       THEN /\ envelope' = [success |-> FALSE, rooms |-> <<>>,
                            processing_time |-> now - start_time, error |-> e.msg]
            /\ exPc' = "returned"
       ELSE /\ exPc' = "escaped"
            /\ UNCHANGED envelope

\* start_time = time.time(), then 1. preprocess
Preprocess ==
    /\ exPc = "call"
    /\ start_time' = clock
    /\ exLog' = Append(exLog, "preprocess")
    /\ LET o == ImageProcessor_preprocess_blueprint(image)
       IN  IF o.raised
           THEN Fail("preprocess", o.exc, clock)
           ELSE exPc' = "preprocessed" /\ UNCHANGED <<envelope, exRaised>>
    /\ UNCHANGED <<exInputs, clock, prompt, attempt, response_text, rooms_data, invoke_start, calls, exRest>>

\* 2. get_prompt_for_blueprint
SelectPrompt ==
    /\ exPc = "preprocessed"
    /\ exLog' = Append(exLog, "prompt")
    /\ prompt' = get_prompt_for_blueprint(complexity, has_small_text)
    /\ exPc' = "prompted"
    /\ UNCHANGED <<exInputs, clock, start_time, attempt, response_text, rooms_data,
                   envelope, exRaised, invoke_start, calls, exRest>>

\* 3. invoke_vision_model up to its retry loop
InvokeBegin ==
    /\ exPc = "prompted"
    /\ exLog' = Append(exLog, "invoke")
    /\ attempt' = 0
    /\ invoke_start' = clock
    /\ calls' = <<>>
    /\ exPc' = "invoking"
    /\ UNCHANGED <<exInputs, clock, start_time, prompt, response_text, rooms_data,
                   envelope, exRaised, exRest>>

\* one call of self._client.invoke_model from clock to clock + d: its result
\* ("ok" or the error) and the text it returned
Call(d, result, text) ==
    [start |-> clock, end |-> clock + d, result |-> result, text |-> text]

\* a backoff that does not grow
wait_time_constant(attempt_) == 1

\* wait_time = 2 ** attempt
wait_time(attempt_) == 2 ^ attempt_

\* one pass of "for attempt in range(self.max_retries)"
InvokeAttempt ==
    /\ exPc = "invoking"
    /\ attempt < bedrock_client.max_retries
    /\ \E d \in CallSeconds :
          \/ \E r \in Responses :
                /\ response_text' = r
                /\ calls' = Append(calls, Call(d, "ok", r))
                /\ clock' = clock + d
                /\ exPc' = "responded"
                /\ UNCHANGED <<attempt, envelope, exRaised>>
          \/ \E code \in ClientErrorCodes :
                /\ calls' = Append(calls, Call(d, code, NoResponse))
                /\ IF attempt < bedrock_client.max_retries - 1
                   THEN /\ clock' = clock + d + wait_time(attempt)
                        /\ attempt' = attempt + 1
                        /\ UNCHANGED <<exPc, response_text, envelope, exRaised>>
                   ELSE /\ clock' = clock + d
                        /\ Fail("invoke", Exc("ClientError", <<"An error occurred", code>>),
                                clock + d)
                        /\ UNCHANGED <<attempt, response_text>>
          \/ /\ calls' = Append(calls, Call(d, "ReadTimeoutError", NoResponse))
             /\ clock' = clock + d
             /\ Fail("invoke", Exc("ReadTimeoutError", <<"Read timeout on endpoint URL">>),
                     clock + d)
             /\ UNCHANGED <<attempt, response_text>>
    /\ UNCHANGED <<exInputs, start_time, prompt, rooms_data, exLog, invoke_start, exRest>>

\* the loop ends without a return: the method returns None
InvokeFallThrough ==
    /\ exPc = "invoking"
    /\ ~(attempt < bedrock_client.max_retries)
    /\ response_text' = NoneResponse
    /\ exPc' = "responded"
    /\ UNCHANGED <<exInputs, clock, start_time, prompt, attempt, rooms_data,
                   envelope, exRaised, exLog, invoke_start, calls, exRest>>

\* 4. sanitize_response
ParseResponse ==
    /\ exPc = "responded"
    /\ exLog' = Append(exLog, "parse")
    /\ LET o == sanitize_response(response_text)
       IN  IF o.raised
           THEN Fail("parse", o.exc, clock) /\ UNCHANGED rooms_data
           ELSE /\ rooms_data' = o.value
                /\ exPc' = "parsed"
                /\ UNCHANGED <<envelope, exRaised>>
    /\ UNCHANGED <<exInputs, clock, start_time, prompt, attempt, response_text, invoke_start, calls, exRest>>

\* 5. validate_rooms, then the success envelope
ValidateAndReturn ==
    /\ exPc = "parsed"
    /\ exLog' = Append(exLog, "validate")
    /\ LET o == validate_rooms(rooms_data)
       IN  IF o.raised
           THEN Fail("validate", o.exc, clock)
           ELSE /\ envelope' = [success |-> TRUE, rooms |-> o.value,
                                processing_time |-> clock - start_time, error |-> None]
                /\ exPc' = "returned"
                /\ UNCHANGED exRaised
    /\ UNCHANGED <<exInputs, clock, start_time, prompt, attempt, response_text,
                   rooms_data, invoke_start, calls, exRest>>

Next ==
    \/ Preprocess
    \/ SelectPrompt
    \/ InvokeBegin
    \/ InvokeAttempt
    \/ InvokeFallThrough
    \/ ParseResponse
    \/ ValidateAndReturn

Init == InitExecute

Spec == Init /\ [][Next]_vars

(***************************************************************************)
(* Properties of execute                                                   *)
(***************************************************************************)
\* C1: no exception escapes execute; whichever stage fails, the call returns
\* the envelope success = false, rooms = [], error = the exception's
\* message, with a processing_time.
C1_NoEscape ==
    /\ exPc # "escaped"
    /\ exRaised.stage # "none" =>
          /\ exPc = "returned"
          /\ envelope.success = FALSE
          /\ envelope.rooms = <<>>
          /\ envelope.error = exRaised.exc.msg
          /\ envelope.error # None
          /\ envelope.processing_time = clock - start_time
          /\ envelope.processing_time >= 0

\* C1 witness: the last stage fails (validate_rooms raises TypeError on a
\* number in the array) and the failure envelope is returned
C1_Witness ==
    /\ exPc = "returned"
    /\ exRaised.stage = "validate"
    /\ exRaised.exc.type = "TypeError"
    /\ envelope.success = FALSE
    /\ envelope.error = <<"argument of type is not iterable">>

\* C14: when the extracted text is not valid JSON, or decodes to a value
\* that is not an array, sanitize_response raises a parse error and execute
\* returns a failure envelope with success = false and the parse error's
\* message in error, without calling the room validator.
C14_ParseErrorEnvelope ==
    (response_text.kind = "str" /\ "parse" \in Range(exLog)) =>
        LET d == json_loads(extract_json_from_response(response_text).value)
        IN  IF d.raised \/ d.value.t # "arr"
            THEN /\ exPc = "returned"
                 /\ exRaised.stage = "parse"
                 /\ exRaised.exc.type = "ValueError"
                 /\ exRaised.exc.msg =
                       IF d.raised THEN <<"Invalid JSON:">> \o d.exc.msg
                       ELSE <<"Expected JSON array, got other type">>
                 /\ envelope.success = FALSE
                 /\ envelope.rooms = <<>>
                 /\ envelope.error = exRaised.exc.msg
                 /\ "validate" \notin Range(exLog)
            ELSE exRaised.stage # "parse"

\* C14 witness: the model answers with a JSON object; execute returns the
\* failure envelope of the parse error and the validator has not run
C14_Witness ==
    /\ exPc = "returned"
    /\ response_text = Str(<<T("{"), Tok("id:", 1), T("}")>>)
    /\ exRaised.stage = "parse"
    /\ envelope.success = FALSE
    /\ envelope.error = <<"Expected JSON array, got other type">>
    /\ exLog = <<"preprocess", "prompt", "invoke", "parse">>

\* invoke_vision_model has returned or raised
InvokeDone == exPc \in {"responded", "parsed", "returned", "escaped"} /\ "invoke" \in Range(exLog)

\* C15: invoke_vision_model calls the model at most max_retries times, waits
\* 2^attempt seconds between consecutive attempts and never after the final
\* one, returns the response of the first successful attempt without further
\* attempts, and when all max_retries attempts fail raises the error of the
\* last attempt, which execute turns into a failure envelope.
C15_RetryBackoff ==
    /\ Len(calls) <= Max2(bedrock_client.max_retries, 0)
    /\ \A k \in 1..(Len(calls) - 1) :
          /\ calls[k].result \in ClientErrorCodes
          /\ calls[k + 1].start - calls[k].end = 2 ^ (k - 1)
    /\ (exPc = "invoking" /\ calls # <<>>) =>
          clock = calls[Len(calls)].end + 2 ^ (Len(calls) - 1)
    /\ (InvokeDone /\ calls # <<>>) =>
          LET last == calls[Len(calls)]
          IN  /\ clock = last.end
              /\ last.result = "ok" =>
                    response_text = last.text /\ exRaised.stage # "invoke"
              /\ last.result \in ClientErrorCodes =>
                    /\ Len(calls) = bedrock_client.max_retries
                    /\ exPc = "returned"
                    /\ exRaised = [stage |-> "invoke",
                                   exc |-> Exc("ClientError",
                                               <<"An error occurred", last.result>>)]
                    /\ envelope.success = FALSE
                    /\ envelope.rooms = <<>>
                    /\ envelope.error = exRaised.exc.msg

\* C15 witness: three attempts fail, the last one differently; the waits
\* were 1 and 2 seconds and the last error is in the envelope
C15_Witness ==
    /\ exPc = "returned"
    /\ bedrock_client.max_retries = 3
    /\ Len(calls) = 3
    /\ calls[1].result = "ThrottlingException"
    /\ calls[2].result = "ThrottlingException"
    /\ calls[3].result = "ServiceUnavailableException"
    /\ calls[2].start - calls[1].end = 1
    /\ calls[3].start - calls[2].end = 2
    /\ envelope.error = <<"An error occurred", "ServiceUnavailableException">>

\* C16: the retry loop respects the configured overall timeout: the time one
\* call of invoke_vision_model spends in attempts and sleeps does not exceed
\* timeout seconds, and no attempt starts once the timeout has elapsed.
C16_RespectsTimeout ==
    "invoke" \in Range(exLog) =>
        /\ clock - invoke_start <= bedrock_client.timeout
        /\ \A k \in DOMAIN calls : calls[k].start - invoke_start < bedrock_client.timeout

\* the stages of execute in the order of its try block
StageOrder == <<"preprocess", "prompt", "invoke", "parse", "validate">>

\* C20: within one execute call the stages run strictly in the order
\* preprocess, prompt selection, model invocation, response parsing, room
\* validation, each starting only after the previous one completed
\* successfully; once a stage fails no later stage runs.
C20_StrictStageOrder ==
    /\ Len(exLog) <= Len(StageOrder)
    /\ exLog = SubSeq(StageOrder, 1, Len(exLog))
    /\ exRaised.stage # "none" =>
          /\ exLog # <<>>
          /\ exLog[Len(exLog)] = exRaised.stage
          /\ exPc = "returned"
    /\ "invoke" \notin Range(exLog) => calls = <<>> /\ response_text = NoResponse
    /\ "prompt" \notin Range(exLog) => prompt = "unset"
    /\ "parse" \notin Range(exLog) => rooms_data = <<>>
    /\ ("validate" \notin Range(exLog) /\ exPc = "returned") => ~envelope.success

\* C20 witness: the model invocation fails after preprocessing and prompt
\* selection; the parser and the validator never ran
C20_Witness ==
    /\ exPc = "returned"
    /\ exRaised.stage = "invoke"
    /\ exLog = <<"preprocess", "prompt", "invoke">>
    /\ calls # <<>>
    /\ rooms_data = <<>>

(***************************************************************************)
(* Domain entities: Coordinates, Wall, Room, Blueprint, and                *)
(* GenerateBlueprintUseCase.                                               *)
(* A Blueprint object is [exists, width, height, walls, rooms]; a          *)
(* serialized blueprint is [keys, width, height, walls, rooms] with keys   *)
(* the optional keys that are present.                                     *)
(***************************************************************************)
\* Coordinates.__post_init__
Coordinates(x, y) ==
    IF ~(0 <= x /\ x <= 1000)
    THEN Raise(Exc("ValueError", <<"X coordinate must be between 0 and 1000">>), <<x, y>>)
    ELSE IF ~(0 <= y /\ y <= 1000)
    THEN Raise(Exc("ValueError", <<"Y coordinate must be between 0 and 1000">>), <<x, y>>)
    ELSE Return([x |-> x, y |-> y])

\* Wall.__post_init__
Wall(id, start, end, thickness) ==
    IF thickness <= 0
    THEN Raise(Exc("ValueError", <<"Wall thickness must be positive">>), id)
    ELSE IF thickness > 50
    THEN Raise(Exc("ValueError", <<"Wall thickness seems too large">>), id)
    ELSE Return([id |-> id, start |-> start, end |-> end, thickness |-> thickness])

Wall_from_ends(data, start, end) ==
    IF start.raised THEN start
    ELSE IF end.raised THEN end
    ELSE Wall(data.id, start.value, end.value, data.thickness)

\* Wall.from_dict
Wall_from_dict(data) ==
    Wall_from_ends(data, Coordinates(data.start[1], data.start[2]),
                         Coordinates(data.end[1], data.end[2]))

Room_of_box(data, b) == IF b.raised THEN b ELSE Return(Room(data.id, b.value))

\* Room.from_dict
Room_from_dict(data) == Room_of_box(data, BoundingBox_from_list(data.bounding_box))

\* Blueprint.__post_init__ of a Blueprint constructed without lists
Blueprint(width, height) ==
    IF width <= 0 \/ height <= 0
    THEN Raise(Exc("ValueError", <<"Blueprint dimensions must be positive">>), NoBlueprint)
    ELSE IF width > 1000 \/ height > 1000
    THEN Raise(Exc("ValueError", <<"Blueprint dimensions exceed normalized range">>), NoBlueprint)
    ELSE Return([exists |-> TRUE, width |-> width, height |-> height,
                 walls |-> <<>>, rooms |-> <<>>])

\* add_wall that appends before it checks
add_wall_append_first(self, wall) ==
    IF wall.start.x > self.width \/ wall.end.x > self.width
    THEN Raise(Exc("ValueError", <<"Wall extends beyond blueprint width">>),
               [self EXCEPT !.walls = Append(@, wall)])
    ELSE IF wall.start.y > self.height \/ wall.end.y > self.height
    THEN Raise(Exc("ValueError", <<"Wall extends beyond blueprint height">>),
               [self EXCEPT !.walls = Append(@, wall)])
    ELSE Return([self EXCEPT !.walls = Append(@, wall)])

\* Blueprint.add_wall: the outcome, with the object as the call leaves it
add_wall(self, wall) ==
    IF wall.start.x > self.width \/ wall.end.x > self.width
    THEN Raise(Exc("ValueError", <<"Wall extends beyond blueprint width">>), self)
    ELSE IF wall.start.y > self.height \/ wall.end.y > self.height
    THEN Raise(Exc("ValueError", <<"Wall extends beyond blueprint height">>), self)
    ELSE Return([self EXCEPT !.walls = Append(@, wall)])

\* add_room that compares x_max only
add_room_width_only(self, room) ==
    IF room.bounding_box[3] > self.width
    THEN Raise(Exc("ValueError", <<"Room extends beyond blueprint bounds">>), self)
    ELSE Return([self EXCEPT !.rooms = Append(@, room)])

\* Blueprint.add_room
add_room(self, room) ==
    IF room.bounding_box[3] > self.width \/ room.bounding_box[4] > self.height
    THEN Raise(Exc("ValueError", <<"Room extends beyond blueprint bounds">>), self)
    ELSE Return([self EXCEPT !.rooms = Append(@, room)])

\* [x.id for x in list]
ids_of(list) == [i \in 1..Len(list) |-> list[i].id]

\* len(ids) != len(set(ids))
has_duplicates(ids) == Len(ids) # Cardinality(Range(ids))

\* validate_layout without the room-id check
validate_layout_walls_only(self) ==
    IF self.walls = <<>>
    THEN Raise(Exc("ValueError", <<"Blueprint must have at least one wall">>), FALSE)
    ELSE IF has_duplicates(ids_of(self.walls))
    THEN Raise(Exc("ValueError", <<"Duplicate wall IDs found">>), FALSE)
    ELSE Return(TRUE)

\* Blueprint.validate_layout
validate_layout(self) ==
    IF self.walls = <<>>
    THEN Raise(Exc("ValueError", <<"Blueprint must have at least one wall">>), FALSE)
    ELSE IF has_duplicates(ids_of(self.walls))
    THEN Raise(Exc("ValueError", <<"Duplicate wall IDs found">>), FALSE)
    ELSE IF self.rooms # <<>> /\ has_duplicates(ids_of(self.rooms))
    THEN Raise(Exc("ValueError", <<"Duplicate room IDs found">>), FALSE)
    ELSE Return(TRUE)

\* data.get(key, default)
dict_get(data, key, default) == IF key \in data.keys THEN data[key] ELSE default

RECURSIVE add_walls_from(_, _, _)
add_wall_of(self, w, walls_data, i) ==
    IF w.raised THEN Raise(w.exc, NoBlueprint)
    ELSE IF add_wall(self, w.value).raised
    THEN Raise(add_wall(self, w.value).exc, NoBlueprint)
    ELSE add_walls_from(add_wall(self, w.value).value, walls_data, i + 1)

\* from_dict: for wall_data in data.get("walls", []), from element i
add_walls_from(self, walls_data, i) ==
    IF i > Len(walls_data) THEN Return(self)
    ELSE add_wall_of(self, Wall_from_dict(walls_data[i]), walls_data, i)

RECURSIVE add_rooms_from(_, _, _)
add_room_of(self, r, rooms_data_, i) ==
    IF r.raised THEN Raise(r.exc, NoBlueprint)
    ELSE IF add_room(self, r.value).raised
    THEN Raise(add_room(self, r.value).exc, NoBlueprint)
    ELSE add_rooms_from(add_room(self, r.value).value, rooms_data_, i + 1)

\* from_dict: for room_data in data.get("rooms", []), from element i
add_rooms_from(self, rooms_data_, i) ==
    IF i > Len(rooms_data_) THEN Return(self)
    ELSE add_room_of(self, Room_from_dict(rooms_data_[i]), rooms_data_, i)

from_dict_rooms(data, with_walls) ==
    IF with_walls.raised THEN with_walls
    ELSE add_rooms_from(with_walls.value, data.rooms, 1)

from_dict_walls(data, empty) ==
    IF empty.raised THEN empty
    ELSE from_dict_rooms(data, add_walls_from(empty.value, data.walls, 1))

\* Blueprint.from_dict
from_dict(data) ==
    from_dict_walls(data, Blueprint(dict_get(data, "width", 1000),
                                    dict_get(data, "height", 1000)))

render_after(self, valid) ==
    IF valid.raised
    THEN [out |-> Raise(valid.exc, None), rendered |-> <<>>]
    ELSE [out |-> Return(<<"output_path">>), rendered |-> <<self>>]

\* GenerateBlueprintUseCase.execute: its outcome and the render calls it made
GenerateBlueprintUseCase_execute(self) == render_after(self, validate_layout(self))

(***************************************************************************)
(* One Blueprint object: constructed empty or from a serialized form, then *)
(* add_wall, add_room and GenerateBlueprintUseCase.execute in any order.   *)
(***************************************************************************)
MaxWalls == 2
MaxBlueprintRooms == 2

Dimensions == {<<3, 3>>, <<4, 2>>, <<0, 3>>, <<3, -1>>, <<1001, 3>>, <<3, 1001>>}

WallData ==
    {[id |-> "w1", start |-> <<0, 0>>, end |-> <<3, 0>>, thickness |-> 5],
     [id |-> "w2", start |-> <<0, 0>>, end |-> <<0, 3>>, thickness |-> 5],
     [id |-> "w1", start |-> <<1, 1>>, end |-> <<2, 2>>, thickness |-> 5],
     [id |-> "w3", start |-> <<4, 1>>, end |-> <<0, 0>>, thickness |-> 5]}

RoomData ==
    {[id |-> "r1", bounding_box |-> <<0, 0, 3, 3>>],
     [id |-> "r2", bounding_box |-> <<1, 1, 2, 2>>],
     [id |-> "r1", bounding_box |-> <<0, 0, 4, 2>>],
     [id |-> "r3", bounding_box |-> <<0, 0, 2, 3>>]}

\* the Wall and Room objects a caller can hold
Walls == {Wall_from_dict(d).value : d \in WallData}
Rooms == {Room_from_dict(d).value : d \in RoomData}

\* serialized walls and rooms, some of which no Wall or Room can be made from
BadWallData ==
    {[id |-> "w4", start |-> <<0, 0>>, end |-> <<1001, 0>>, thickness |-> 5],
     [id |-> "w4", start |-> <<0, -1>>, end |-> <<1, 1>>, thickness |-> 5],
     [id |-> "w4", start |-> <<0, 0>>, end |-> <<1, 1>>, thickness |-> 0]}
BadRoomData ==
    {[id |-> "r4", bounding_box |-> <<-1, 0, 2, 2>>],
     [id |-> "r4", bounding_box |-> <<0, 0, 2>>]}

Serialized ==
    {[keys |-> k, width |-> 3, height |-> 3, walls |-> ws, rooms |-> rs] :
        k \in {{"width", "height"}, {}},
        ws \in SeqsUpTo(WallData \cup BadWallData, 1),
        rs \in SeqsUpTo(RoomData \cup BadRoomData, 1)}
    \cup {[keys |-> {"width", "height"}, width |-> d[1], height |-> d[2],
           walls |-> <<>>, rooms |-> <<>>] : d \in Dimensions}

InitBlueprint == bpIdle /\ bpRestIdle

Op(name, arg) == [name |-> name, arg |-> arg,
                  walls |-> blueprint.walls, rooms |-> blueprint.rooms]

Construct ==
    /\ bpOp.name = "none"
    /\ \E d \in Dimensions : \E r \in {Blueprint(d[1], d[2])} :
          /\ bpOp' = Op("Blueprint", <<d[1], d[2]>>)
          /\ blueprint' = r.value
          /\ bpOut' = r
    /\ render_call' = <<>>
    /\ UNCHANGED bpRest

FromDict ==
    /\ bpOp.name = "none"
    /\ \E data \in Serialized : \E r \in {from_dict(data)} :
          /\ bpOp' = Op("from_dict", <<dict_get(data, "width", 1000),
                                       dict_get(data, "height", 1000)>>)
          /\ blueprint' = r.value
          /\ bpOut' = r
    /\ render_call' = <<>>
    /\ UNCHANGED bpRest

AddWall ==
    /\ blueprint.exists
    /\ Len(blueprint.walls) < MaxWalls
    /\ \E wall \in Walls : \E r \in {add_wall(blueprint, wall)} :
          /\ bpOp' = Op("add_wall", wall)
          /\ blueprint' = r.value
          /\ bpOut' = r
    /\ render_call' = <<>>
    /\ UNCHANGED bpRest

AddRoom ==
    /\ blueprint.exists
    /\ Len(blueprint.rooms) < MaxBlueprintRooms
    /\ \E room \in Rooms : \E r \in {add_room(blueprint, room)} :
          /\ bpOp' = Op("add_room", room)
          /\ blueprint' = r.value
          /\ bpOut' = r
    /\ render_call' = <<>>
    /\ UNCHANGED bpRest

GenerateBlueprint ==
    /\ blueprint.exists
    /\ \E r \in {GenerateBlueprintUseCase_execute(blueprint)} :
          /\ bpOp' = Op("execute", blueprint)
          /\ bpOut' = r.out
          /\ render_call' = r.rendered
    /\ UNCHANGED <<blueprint, bpRest>>

NextBlueprint ==
    \/ Construct
    \/ FromDict
    \/ AddWall
    \/ AddRoom
    \/ GenerateBlueprint

SpecBlueprint == InitBlueprint /\ [][NextBlueprint]_vars

(***************************************************************************)
(* Properties of Blueprint and GenerateBlueprintUseCase                     *)
(***************************************************************************)
WallExceeds(wall) ==
    \/ wall.start.x > blueprint.width \/ wall.end.x > blueprint.width
    \/ wall.start.y > blueprint.height \/ wall.end.y > blueprint.height

RoomExceeds(room) ==
    \/ room.bounding_box[3] > blueprint.width
    \/ room.bounding_box[4] > blueprint.height

ListsUnchanged == blueprint.walls = bpOp.walls /\ blueprint.rooms = bpOp.rooms

\* C17: add_wall with a wall whose start or end exceeds the blueprint's width
\* or height raises ValueError and leaves the wall list and the room list as
\* they were when it was called; add_room with a room whose bounding box
\* exceeds the bounds does the same.
C17_RejectedAddLeavesLists ==
    /\ (bpOp.name = "add_wall" /\ WallExceeds(bpOp.arg)) =>
          bpOut.raised /\ bpOut.exc.type = "ValueError" /\ ListsUnchanged
    /\ (bpOp.name = "add_room" /\ RoomExceeds(bpOp.arg)) =>
          bpOut.raised /\ bpOut.exc.type = "ValueError" /\ ListsUnchanged

C17_Witness ==
    /\ bpOp.name = "add_wall" /\ WallExceeds(bpOp.arg) /\ bpOut.raised
    /\ blueprint.walls # <<>> /\ blueprint.rooms # <<>>

InBounds(x, y) ==
    /\ 0 <= x /\ x <= blueprint.width
    /\ 0 <= y /\ y <= blueprint.height

\* C18: a Blueprint that was constructed, empty or by from_dict, and then went
\* through add_wall and add_room calls has width and height in (0, 1000] and
\* every wall end point and every room box within [0, width] x [0, height];
\* a construction with a width or height <= 0 or > 1000 raises ValueError and
\* yields no Blueprint.
C18_BlueprintInvariant ==
    /\ blueprint.exists =>
          /\ 0 < blueprint.width /\ blueprint.width <= 1000
          /\ 0 < blueprint.height /\ blueprint.height <= 1000
          /\ \A i \in 1..Len(blueprint.walls) :
                /\ InBounds(blueprint.walls[i].start.x, blueprint.walls[i].start.y)
                /\ InBounds(blueprint.walls[i].end.x, blueprint.walls[i].end.y)
          /\ \A i \in 1..Len(blueprint.rooms) :
                /\ InBounds(blueprint.rooms[i].bounding_box[1],
                            blueprint.rooms[i].bounding_box[2])
                /\ InBounds(blueprint.rooms[i].bounding_box[3],
                            blueprint.rooms[i].bounding_box[4])
    /\ (/\ bpOp.name \in {"Blueprint", "from_dict"}
        /\ \E k \in 1..2 : bpOp.arg[k] <= 0 \/ bpOp.arg[k] > 1000) =>
          bpOut.raised /\ bpOut.exc.type = "ValueError" /\ ~blueprint.exists

C18_Witness ==
    /\ blueprint.exists /\ blueprint.width < 1000
    /\ blueprint.walls # <<>> /\ blueprint.rooms # <<>>
    /\ bpOp.name = "add_room" /\ RoomExceeds(bpOp.arg) /\ bpOut.raised

Distinct(ids) == \A i, j \in 1..Len(ids) : i # j => ids[i] # ids[j]

HasValidLayout(b) ==
    /\ Len(b.walls) >= 1
    /\ Distinct(ids_of(b.walls))
    /\ Distinct(ids_of(b.rooms))

\* C19: execute hands the blueprint to the renderer only when it has at least
\* one wall, pairwise distinct wall ids and pairwise distinct room ids, and
\* then exactly once; for any other blueprint it raises ValueError and makes
\* no render call.
C19_RenderOnlyValidLayout ==
    /\ render_call # <<>> => bpOp.name = "execute" /\ HasValidLayout(blueprint)
    /\ bpOp.name = "execute" =>
          IF HasValidLayout(blueprint)
          THEN ~bpOut.raised /\ render_call = <<blueprint>>
          ELSE bpOut.raised /\ bpOut.exc.type = "ValueError" /\ render_call = <<>>

C19_Witness ==
    /\ bpOp.name = "execute" /\ bpOut.raised /\ render_call = <<>>
    /\ Len(blueprint.walls) >= 1 /\ Distinct(ids_of(blueprint.walls))
    /\ ~Distinct(ids_of(blueprint.rooms))

(***************************************************************************)
(* Properties of the envelope and of invoke_vision_model                   *)
(***************************************************************************)
\* s is t with some elements left out, order kept
IsSubsequence(s, t) ==
    \E f \in [1..Len(s) -> 1..Len(t)] :
        /\ \A i, j \in 1..Len(s) : i < j => f[i] < f[j]
        /\ \A i \in 1..Len(s) : s[i] = t[f[i]]

\* C24: every envelope execute returns has success true exactly when error
\* is None; a success envelope holds only rooms that pass validate_room (an
\* id and a 4-element, in-range, strictly ordered box), in the order of the
\* parsed records they are taken from; a failure envelope has no rooms.
C24_EnvelopeInvariant ==
    exPc = "returned" =>
        /\ envelope.success <=> envelope.error = None
        /\ envelope.success =>
              /\ \A i \in 1..Len(envelope.rooms) :
                    /\ ~validate_room(envelope.rooms[i]).raised
                    /\ PassesValidation(envelope.rooms[i])
              /\ IsSubsequence(envelope.rooms, rooms_data)
        /\ ~envelope.success => envelope.rooms = <<>>

\* C24 witness: two records parsed, the inverted one dropped, success
C24_Witness ==
    /\ exPc = "returned" /\ envelope.success
    /\ Len(rooms_data) = 2 /\ Len(envelope.rooms) = 1
    /\ envelope.rooms[1] = rooms_data[2]

\* C25: whatever max_retries is, invoke_vision_model either raises or returns
\* the text of an invoke_model call that succeeded.
C25_ReturnsTextOrRaises ==
    (InvokeDone /\ exRaised.stage # "invoke") =>
        /\ calls # <<>>
        /\ calls[Len(calls)].result = "ok"
        /\ response_text.kind = "str"
        /\ response_text = calls[Len(calls)].text

(***************************************************************************)
(* Room.to_dict and get_prompt_for_blueprint, each applied to one input    *)
(***************************************************************************)
\* bool(x) of an Optional[str]
truthy(x) == x.kind = "str" /\ x.text # ""

\* BoundingBox.to_list
to_list(b) == <<b[1], b[2], b[3], b[4]>>

\* Room.to_dict
Room_to_dict(self) ==
    IF truthy(self.name_hint)
    THEN RoomDict({"id", "bounding_box", "name_hint"}, self.id,
                  to_list(self.bounding_box), self.name_hint)
    ELSE RoomDict({"id", "bounding_box"}, self.id, to_list(self.bounding_box), NoneStr)

NameHints == {NoneStr, PyStr(""), PyStr("Kitchen")}

RoomEntities ==
    {RoomEntity(i, b, n) : i \in {"room_001", "room_002"},
                           b \in {<<100, 200, 500, 600>>, <<0, 0, 1000, 1000>>},
                           n \in NameHints}

PromptComplexities == {"simple", "standard", "complex", "unknown", ""}

InitEntities ==
    /\ room_entity \in RoomEntities
    /\ rdPc = "call" /\ rdOut = RoomDict({}, "none", <<>>, NoneStr)
    /\ prompt_args \in PromptComplexities \X BOOLEAN
    /\ gpPc = "call" /\ gpOut = "unset"
    /\ enRestIdle

RoomToDictCall ==
    /\ rdPc = "call"
    /\ rdOut' = Room_to_dict(room_entity)
    /\ rdPc' = "done"
    /\ UNCHANGED <<room_entity, prompt_args, gpPc, gpOut, enRest>>

GetPromptCall ==
    /\ gpPc = "call"
    /\ gpOut' = get_prompt_for_blueprint(prompt_args[1], prompt_args[2])
    /\ gpPc' = "done"
    /\ UNCHANGED <<room_entity, rdPc, rdOut, prompt_args, enRest>>

NextEntities ==
    \/ RoomToDictCall
    \/ GetPromptCall

SpecEntities == InitEntities /\ [][NextEntities]_vars

\* C22: the dict of Room.to_dict has the key name_hint exactly when the
\* room's name_hint is not None, and then with that value; id and
\* bounding_box are always there, bounding_box as the list
\* [x_min, y_min, x_max, y_max].
C22_NameHintKey ==
    rdPc = "done" =>
        /\ {"id", "bounding_box"} \subseteq rdOut.keys
        /\ rdOut.id = room_entity.id
        /\ rdOut.bounding_box = room_entity.bounding_box
        /\ "name_hint" \in rdOut.keys <=> room_entity.name_hint # NoneStr
        /\ "name_hint" \in rdOut.keys => rdOut.name_hint = room_entity.name_hint

Templates == {"ROOM_DETECTION_PROMPT", "ROOM_DETECTION_PROMPT_WITH_EXAMPLES",
              "COMPLEX_BLUEPRINT_PROMPT", "SMALL_TEXT_PROMPT"}

\* C23: get_prompt_for_blueprint returns one of the four templates: the
\* small-text one whenever has_small_text is true, otherwise the complex one
\* for "complex", the base one for "simple" and the one with examples for
\* "standard" and every other complexity.
C23_PromptSelection ==
    gpPc = "done" =>
        /\ gpOut \in Templates
        /\ prompt_args[2] => gpOut = "SMALL_TEXT_PROMPT"
        /\ ~prompt_args[2] =>
              /\ prompt_args[1] = "complex" => gpOut = "COMPLEX_BLUEPRINT_PROMPT"
              /\ prompt_args[1] = "simple" => gpOut = "ROOM_DETECTION_PROMPT"
              /\ prompt_args[1] \notin {"complex", "simple"} =>
                    gpOut = "ROOM_DETECTION_PROMPT_WITH_EXAMPLES"

\* C23 witness: small text on a complex blueprint gets the small-text template
C23_Witness ==
    /\ gpPc = "done" /\ prompt_args = <<"complex", TRUE>>
    /\ gpOut = "SMALL_TEXT_PROMPT"

(***************************************************************************)
(* The matching cannot be extended                                         *)
(***************************************************************************)
FracEq(a, b) == a[1] * b[2] = b[1] * a[2]

UsedAtReturn == {matches[i].gt.id : i \in DOMAIN matches}

\* C26: when match_rooms returns under a positive threshold, no prediction
\* left unmatched and ground-truth room left unused have an IoU at or above
\* the threshold, and every match carries the IoU of its own pair, which is
\* at or above the threshold.
C26_MatchingMaximal ==
    (scPc = "returned" /\ FracGt(iou_threshold, Zero)) =>
        /\ \A k \in DOMAIN predicted_rooms : \A j \in DOMAIN ground_truth_rooms :
              (MatchedGt(k) = 0 /\ j \notin UsedAtReturn) =>
                  ~FracGe(PairIoU(k, j), iou_threshold)
        /\ \A i \in DOMAIN matches :
              /\ FracEq(matches[i].iou, PairIoU(matches[i].pred.id, matches[i].gt.id))
              /\ FracGe(matches[i].iou, iou_threshold)

\* C26 witness: two predictions reach the threshold 1/2 on the only
\* ground-truth room they overlap; the second stays unmatched, and the
\* ground-truth room left unused overlaps it below the threshold
C26_Witness ==
    /\ scPc = "returned" /\ iou_threshold = <<1, 2>>
    /\ Len(predicted_rooms) = 2 /\ Len(ground_truth_rooms) = 2
    /\ Len(matches) = 1
    /\ MatchedGt(2) = 0
    /\ \E j \in 1..2 : j \notin UsedAtReturn /\ FracGt(PairIoU(2, j), Zero)

(***************************************************************************)
(* sanitize_coordinates applied twice                                      *)
(***************************************************************************)
\* the numbers of a box of numbers
Values(b) == [i \in 1..Len(b.coords) |-> b.coords[i].value]

\* C28: sanitize_coordinates applied to its own result returns that result
\* again, and applied to a box that passes validate_bounding_box it returns
\* the box.
C28_SanitizeIdempotent ==
    /\ bxPc = "resanitized" => bxOut = bxPrev
    /\ (bxPc \in {"sanitized", "resanitized"} /\ IsValidBox(bbox)
        /\ ~validate_bounding_box(bbox, BoxRoomId).raised) =>
          ~bxOut.raised /\ bxOut.value = Values(bbox)

\* C28 witness: a box out of range on both sides and inverted in y, repaired
\* by the first call and left alone by the second
C28_Witness ==
    /\ bxPc = "resanitized"
    /\ bbox = NumBox(<<COORDINATE_MIN - 10, 600, COORDINATE_MAX + 500, 200>>)
    /\ bxPrev = Return(<<0, 600, 1000, 601>>)
    /\ bxOut = bxPrev

(***************************************************************************)
(* Validated rooms handed to the scoring pipeline                          *)
(***************************************************************************)
MaxScored == 2

\* two overlapping valid boxes, a box of no width, a box out of range, a box
\* with a coordinate that is not a number
AgreeBoxes ==
    {NumBox(<<100, 200, 500, 600>>), NumBox(<<200, 200, 600, 600>>),
     NumBox(<<500, 200, 500, 600>>), NumBox(<<100, 200, 1500, 600>>),
     ListBox(<<Num(100), NotNum, Num(500), Num(600)>>)}

AgreeRecords == {DictRoom({"id", "bounding_box"}, 1, b) : b \in AgreeBoxes}

\* room["bounding_box"] as calculate_iou receives it: the list of the numbers
as_rooms(valid) ==
    [i \in 1..Len(valid) |-> Room(valid[i].id, Values(valid[i].bounding_box))]

InitAgree ==
    /\ raw_predicted \in SeqsUpTo(AgreeRecords, MaxScored)
    /\ raw_truth \in SeqsUpTo(AgreeRecords, MaxScored)
    /\ agPc = "call"
    /\ valid_predicted = Return(<<>>) /\ valid_truth = Return(<<>>)
    /\ agOut = Return(<<>>)
    /\ agRestIdle

ValidatePredicted ==
    /\ agPc = "call"
    /\ valid_predicted' = validate_rooms(raw_predicted)
    /\ agPc' = "predicted_validated"
    /\ UNCHANGED <<raw_predicted, raw_truth, valid_truth, agOut, agRest>>

ValidateGroundTruth ==
    /\ agPc = "predicted_validated"
    /\ valid_truth' = validate_rooms(raw_truth)
    /\ agPc' = "validated"
    /\ UNCHANGED <<raw_predicted, raw_truth, valid_predicted, agOut, agRest>>

MatchValidated ==
    /\ agPc = "validated"
    /\ ~valid_predicted.raised /\ ~valid_truth.raised
    /\ agOut' = match_rooms(as_rooms(valid_predicted.value), as_rooms(valid_truth.value),
                            DEFAULT_IOU_THRESHOLD)
    /\ agPc' = "matched"
    /\ UNCHANGED <<raw_predicted, raw_truth, valid_predicted, valid_truth, agRest>>

MetricsOfValidated ==
    /\ agPc = "validated"
    /\ ~valid_predicted.raised /\ ~valid_truth.raised
    /\ agOut' = calculate_metrics(as_rooms(valid_predicted.value),
                                  as_rooms(valid_truth.value))
    /\ agPc' = "scored"
    /\ UNCHANGED <<raw_predicted, raw_truth, valid_predicted, valid_truth, agRest>>

NextAgree ==
    \/ ValidatePredicted
    \/ ValidateGroundTruth
    \/ MatchValidated
    \/ MetricsOfValidated

SpecAgree == InitAgree /\ [][NextAgree]_vars

\* pred_area + true_area - intersection of two lists of four numbers
UnionArea(p, t) ==
    area(p) + area(t)
    - Max2(0, Min2(p[3], t[3]) - Max2(p[1], t[1]))
      * Max2(0, Min2(p[4], t[4]) - Max2(p[2], t[2]))

FromListAccepts(r) ==
    /\ r.bounding_box.is_list
    /\ \A i \in DOMAIN r.bounding_box.coords : r.bounding_box.coords[i].is_number
    /\ ~BoundingBox_from_list(Values(r.bounding_box)).raised

\* C27: every record validate_rooms keeps has a bounding box that
\* BoundingBox.from_list accepts; match_rooms and calculate_metrics on the
\* validated predictions and validated ground truth return without raising,
\* and the IoU of every pair of them has a positive union and lies in [0, 1].
C27_ValidatorAgreesWithBoundingBox ==
    /\ \A i \in DOMAIN valid_predicted.value : FromListAccepts(valid_predicted.value[i])
    /\ \A i \in DOMAIN valid_truth.value : FromListAccepts(valid_truth.value[i])
    /\ agPc \in {"matched", "scored"} =>
          /\ ~agOut.raised
          /\ \A i \in DOMAIN valid_predicted.value : \A j \in DOMAIN valid_truth.value :
                /\ UnionArea(Values(valid_predicted.value[i].bounding_box),
                             Values(valid_truth.value[j].bounding_box)) > 0
                /\ ~calculate_iou(Values(valid_predicted.value[i].bounding_box),
                                  Values(valid_truth.value[j].bounding_box)).raised
                /\ FracGe(calculate_iou(Values(valid_predicted.value[i].bounding_box),
                                        Values(valid_truth.value[j].bounding_box)).value, Zero)
                /\ FracGe(<<1, 1>>,
                          calculate_iou(Values(valid_predicted.value[i].bounding_box),
                                        Values(valid_truth.value[j].bounding_box)).value)
    /\ agPc = "matched" =>
          \A i \in DOMAIN agOut.value :
              FracGe(agOut.value[i].iou, Zero) /\ FracGe(<<1, 1>>, agOut.value[i].iou)

\* C27 witness: of two predictions and two ground-truth records one each is
\* dropped by the validator, and the two kept ones are matched
C27_Witness ==
    /\ agPc = "matched"
    /\ Len(raw_predicted) = 2 /\ Len(valid_predicted.value) = 1
    /\ Len(raw_truth) = 2 /\ Len(valid_truth.value) = 1
    /\ ~agOut.raised /\ Len(agOut.value) = 1
    /\ FracGt(<<1, 1>>, agOut.value[1].iou)

(***************************************************************************)
(* FloorPlan: a Blueprint built through generated ids                      *)
(***************************************************************************)
\* f"room_{n:03d}" and f"wall_{n:03d}"
generated_id(prefix, n) == <<prefix, n>>

FloorPlan_add_made_room(self, room_id, bbox_) ==
    IF bbox_.raised THEN Raise(bbox_.exc, self)
    ELSE add_room(self, Room(room_id, bbox_.value))

\* FloorPlan.add_room: the outcome, with the blueprint as the call leaves it
FloorPlan_add_room(self, x, y, width, height) ==
    FloorPlan_add_made_room(self, generated_id("room_", Len(self.rooms) + 1),
                            BoundingBox_from_list(<<x, y, x + width, y + height>>))

FloorPlan_add_made_wall(self, wall) ==
    IF wall.raised THEN Raise(wall.exc, self)
    ELSE add_wall(self, wall.value)

\* FloorPlan.add_wall
FloorPlan_add_wall(self, start_x, start_y, end_x, end_y, thickness) ==
    FloorPlan_add_made_wall(self,
        Wall_from_dict([id |-> generated_id("wall_", Len(self.walls) + 1),
                        start |-> <<start_x, start_y>>, end |-> <<end_x, end_y>>,
                        thickness |-> thickness]))

\* the next add_wall of add_rectangular_room_with_walls, o being the outcome
\* of the calls before it
then_add_wall(o, start_x, start_y, end_x, end_y, thickness) ==
    IF o.raised THEN o
    ELSE FloorPlan_add_wall(o.value, start_x, start_y, end_x, end_y, thickness)

\* FloorPlan.add_rectangular_room_with_walls
add_rectangular_room_with_walls(self, x, y, width, height, wall_thickness) ==
    then_add_wall(
      then_add_wall(
        then_add_wall(
          then_add_wall(FloorPlan_add_room(self, x, y, width, height),
                        x, y, x + width, y, wall_thickness),
          x + width, y, x + width, y + height, wall_thickness),
        x + width, y + height, x, y + height, wall_thickness),
      x, y + height, x, y, wall_thickness)

MaxFloorPlanCalls == 3

FloorPlanSizes == {<<1000, 1000>>, <<600, 600>>}

\* x, y, width, height of a room: two that fit, one of no width, one too far
Rectangles == {<<0, 0, 500, 500>>, <<500, 0, 500, 600>>, <<0, 0, 0, 500>>,
               <<500, 500, 600, 600>>}

Thicknesses == {5, 0, 51}

Segments == {<<0, 0, 500, 0>>, <<0, 0, 1000, 0>>}

InitFloorPlan ==
    /\ \E d \in FloorPlanSizes : floor_plan = Blueprint(d[1], d[2]).value
    /\ fpOp = NoOp /\ fpOut = Return(None) /\ fpCalls = 0
    /\ fpRestIdle

FpOp(name) == [name |-> name, arg |-> None,
               walls |-> floor_plan.walls, rooms |-> floor_plan.rooms]

FloorPlanAddRoom ==
    /\ fpCalls < MaxFloorPlanCalls
    /\ \E a \in Rectangles : \E r \in {FloorPlan_add_room(floor_plan, a[1], a[2], a[3], a[4])} :
          /\ floor_plan' = r.value
          /\ fpOut' = r
    /\ fpOp' = FpOp("add_room")
    /\ fpCalls' = fpCalls + 1
    /\ UNCHANGED fpRest

FloorPlanAddWall ==
    /\ fpCalls < MaxFloorPlanCalls
    /\ \E a \in Segments : \E t \in Thicknesses :
          \E r \in {FloorPlan_add_wall(floor_plan, a[1], a[2], a[3], a[4], t)} :
             /\ floor_plan' = r.value
             /\ fpOut' = r
    /\ fpOp' = FpOp("add_wall")
    /\ fpCalls' = fpCalls + 1
    /\ UNCHANGED fpRest

AddRectangularRoomWithWalls ==
    /\ fpCalls < MaxFloorPlanCalls
    /\ \E a \in Rectangles : \E t \in Thicknesses :
          \E r \in {add_rectangular_room_with_walls(floor_plan, a[1], a[2], a[3], a[4], t)} :
             /\ floor_plan' = r.value
             /\ fpOut' = r
    /\ fpOp' = FpOp("add_rectangular_room_with_walls")
    /\ fpCalls' = fpCalls + 1
    /\ UNCHANGED fpRest

NextFloorPlan ==
    \/ FloorPlanAddRoom
    \/ FloorPlanAddWall
    \/ AddRectangularRoomWithWalls

SpecFloorPlan == InitFloorPlan /\ [][NextFloorPlan]_vars

\* C29: after add_rectangular_room_with_walls either the room and its four
\* walls were added (one more room, four more walls) or the call raised and
\* the room list and the wall list are as before the call; and after any
\* FloorPlan add calls the room ids are pairwise distinct and so are the
\* wall ids.
C29_AllOrNothing ==
    /\ fpOp.name = "add_rectangular_room_with_walls" =>
          IF fpOut.raised
          THEN floor_plan.rooms = fpOp.rooms /\ floor_plan.walls = fpOp.walls
          ELSE /\ Len(floor_plan.rooms) = Len(fpOp.rooms) + 1
               /\ Len(floor_plan.walls) = Len(fpOp.walls) + 4
    /\ Distinct(ids_of(floor_plan.rooms))
    /\ Distinct(ids_of(floor_plan.walls))

(***************************************************************************)
(* lambda_handler                                                          *)
(***************************************************************************)
\* what "body" can be: absent (the default ""), a str that is the base64 of
\* an image, a str that is the base64 of something else, a str that is JSON
\* with a good or a bad "image" entry or without one, a str that is
\* neither, bytes of an image, bytes of something else, another type
Bodies == {"absent", "str_base64_image", "str_base64_other", "str_json_image",
           "str_json_bad_image", "str_json_no_image", "str_other",
           "bytes_image", "bytes_other", "number"}

\* what "headers" can be: absent (the default {}), a dict, None
HeaderValues == {"absent", "dict", "None"}

Events ==
    {Event(TRUE, h, b) : h \in HeaderValues, b \in Bodies}
    \cup {Event(FALSE, "absent", "absent")}

\* _extract_image_from_event
extract_image_from_event(ev) ==
    IF ~ev.is_dict
    THEN Raise(Exc("AttributeError", <<"object has no attribute 'get'">>), "none")
    ELSE IF ev.headers = "None"
    THEN Raise(Exc("AttributeError", <<"'NoneType' object has no attribute 'get'">>), "none")
    ELSE IF ev.body \in {"str_base64_image", "str_json_image", "bytes_image"}
    THEN Return("pil_image")
    ELSE IF ev.body = "bytes_other"
    THEN Raise(Exc("UnidentifiedImageError", <<"cannot identify image file">>), "none")
    ELSE Raise(Exc("ValueError", <<"Could not extract image from event body">>), "none")

\* a formatting that answers 200 whatever the envelope says
format_response_always_ok(res) ==
    [statusCode |-> 200,
     body |-> Body({"success", "rooms", "processing_time", "model"},
                   res.success, res.rooms, None)]

\* lines 44-67: the response made from the envelope
format_response(res) ==
    IF res.success
    THEN [statusCode |-> 200,
          body |-> Body({"success", "rooms", "processing_time", "model"},
                        TRUE, res.rooms, None)]
    ELSE [statusCode |-> 500,
          body |-> Body({"success", "error", "rooms"}, FALSE, <<>>, res.error)]

\* the except clause of lambda_handler
error_response(e) ==
    [statusCode |-> 500,
     body |-> Body({"success", "error", "rooms"}, FALSE, <<>>, e.msg)]

\* the envelopes execute returns: success with the validated rooms, failure
\* with the message of the exception and no rooms
Envelopes ==
    {[success |-> TRUE, rooms |-> rs, processing_time |-> 1, error |-> None] :
        rs \in {<<>>, <<DictRoom({"id", "bounding_box"}, 1, NumBox(<<100, 200, 500, 600>>))>>}}
    \cup {[success |-> FALSE, rooms |-> <<>>, processing_time |-> 1, error |-> m] :
            m \in {<<"Expected JSON array, got other type">>, <<"An error occurred">>, <<>>}}

InitLambda ==
    /\ event \in Events
    /\ lhPc = "call"
    /\ lambda_result = NoEnvelope /\ lhRaised = NoExc
    /\ lambda_response = NoLambdaResponse
    /\ lhRestIdle

\* "except Exception as e" of lambda_handler, reached with exception e
Handle(e) ==
    /\ lhRaised' = e
    /\ IF ExceptException(e)
       THEN lambda_response' = error_response(e) /\ lhPc' = "returned"
       ELSE lhPc' = "escaped" /\ UNCHANGED lambda_response

ExtractImage ==
    /\ lhPc = "call"
    /\ \E o \in {extract_image_from_event(event)} :
          IF o.raised THEN Handle(o.exc)
          ELSE lhPc' = "extracted" /\ UNCHANGED <<lhRaised, lambda_response>>
    /\ UNCHANGED <<event, lambda_result, lhRest>>

\* BedrockClient() and DetectRoomsUseCase(bedrock_client): boto3.client
\* returns or raises
ConstructDependencies ==
    /\ lhPc = "extracted"
    /\ \/ lhPc' = "constructed" /\ UNCHANGED <<lhRaised, lambda_response>>
       \/ Handle(Exc("ClientError", <<"An error occurred">>))
    /\ UNCHANGED <<event, lambda_result, lhRest>>

\* result = use_case.execute(image)
ExecuteUseCase ==
    /\ lhPc = "constructed"
    /\ lambda_result' \in Envelopes
    /\ lhPc' = "executed"
    /\ UNCHANGED <<event, lhRaised, lambda_response, lhRest>>

FormatResponse ==
    /\ lhPc = "executed"
    /\ lambda_response' = format_response(lambda_result)
    /\ lhPc' = "returned"
    /\ UNCHANGED <<event, lambda_result, lhRaised, lhRest>>

NextLambda ==
    \/ ExtractImage
    \/ ConstructDependencies
    \/ ExecuteUseCase
    \/ FormatResponse

SpecLambda == InitLambda /\ [][NextLambda]_vars

\* C30: lambda_handler raises nothing; the response it returns has
\* statusCode 200 exactly when execute returned an envelope with success
\* true, and 500 otherwise; the body of a 500 response has success false,
\* an error string and an empty rooms list.
C30_HandlerNeverRaises ==
    /\ lhPc # "escaped"
    /\ lhPc = "returned" =>
          /\ lambda_response.statusCode \in {200, 500}
          /\ lambda_response.statusCode = 200 <=> (lambda_result # NoEnvelope /\ lambda_result.success)
          /\ lambda_response.statusCode = 500 =>
                /\ lambda_response.body.success = FALSE
                /\ "error" \in lambda_response.body.keys
                /\ lambda_response.body.error # None
                /\ "rooms" \in lambda_response.body.keys
                /\ lambda_response.body.rooms = <<>>
    /\ (lhPc \in {"extracted", "constructed", "executed"}) => lhRaised = NoExc

\* C30 witness: the image is read from the JSON body and execute returns a
\* failure envelope, which becomes a 500 response with its error
C30_Witness ==
    /\ lhPc = "returned" /\ event.body = "str_json_image"
    /\ lambda_result.success = FALSE /\ lhRaised = NoExc
    /\ lambda_response.statusCode = 500
    /\ lambda_response.body.error = <<"Expected JSON array, got other type">>

(***************************************************************************)
(* Two concurrent invocations of execute on one use-case object            *)
(***************************************************************************)
\* local variables kept in one place for all invocations, as attributes of
\* the shared object would be
frame_on_self(i) == 1

\* start_time, processed_image, prompt, response_text, rooms_data and
\* attempt are local variables: each invocation has its own frame
frame(i) == i

\* self.max_retries of the shared client, read but never written by
\* invoke_vision_model
SharedMaxRetries == 2

\* what invoke_model answers: a fenced JSON array with a valid room, prose, or a
\* throttling ClientError
Answers ==
    {[result |-> "ok",
      text |-> Str(Fenced(<<T("json")>>,
                          json_dumps(<<DictRoom({"id", "bounding_box"}, 1,
                                                NumBox(<<100, 200, 500, 600>>))>>)))],
     [result |-> "ok", text |-> Str(<<T("word")>>)],
     [result |-> "ThrottlingException", text |-> NoResponse]}

ConcurrentImages == {"pil_image", "unsupported"}

InitConcurrent ==
    /\ cc_image \in [Invocations -> ConcurrentImages]
    /\ cc_answers \in [Invocations -> [1..SharedMaxRetries -> Answers]]
    /\ ccPc = [i \in Invocations |-> "call"]
    /\ cc_envelope = [i \in Invocations |-> NoResult]
    /\ frames = [i \in Invocations |-> NoLocals]
    /\ ccRestIdle

\* the except clause of execute in invocation i
CcFail(i, e) ==
    /\ cc_envelope' = [cc_envelope EXCEPT ![i] =
                          [success |-> FALSE, rooms |-> <<>>, error |-> e.msg]]
    /\ ccPc' = [ccPc EXCEPT ![i] = "returned"]

CcPreprocess(i) ==
    /\ ccPc[i] = "call"
    /\ \E o \in {ImageProcessor_preprocess_blueprint(cc_image[i])} :
          IF o.raised
          THEN CcFail(i, o.exc) /\ UNCHANGED frames
          ELSE /\ frames' = [frames EXCEPT ![frame(i)].processed_image = o.value]
               /\ ccPc' = [ccPc EXCEPT ![i] = "preprocessed"]
               /\ UNCHANGED cc_envelope
    /\ UNCHANGED <<cc_image, cc_answers, ccRest>>

CcSelectPrompt(i) ==
    /\ ccPc[i] = "preprocessed"
    /\ frames' = [frames EXCEPT ![frame(i)].prompt =
                     get_prompt_for_blueprint("standard", FALSE),
                                ![frame(i)].attempt = 0]
    /\ ccPc' = [ccPc EXCEPT ![i] = "invoking"]
    /\ UNCHANGED <<cc_image, cc_answers, cc_envelope, ccRest>>

\* one pass of the retry loop of invocation i
CcInvokeAttempt(i) ==
    /\ ccPc[i] = "invoking"
    /\ frames[frame(i)].attempt < SharedMaxRetries
    /\ \E a \in {cc_answers[i][frames[frame(i)].attempt + 1]} :
          IF a.result = "ok"
          THEN /\ frames' = [frames EXCEPT ![frame(i)].response_text = a.text]
               /\ ccPc' = [ccPc EXCEPT ![i] = "responded"]
               /\ UNCHANGED cc_envelope
          ELSE IF frames[frame(i)].attempt < SharedMaxRetries - 1
          THEN /\ frames' = [frames EXCEPT ![frame(i)].attempt = @ + 1]
               /\ UNCHANGED <<ccPc, cc_envelope>>
          ELSE /\ CcFail(i, Exc("ClientError", <<"An error occurred", a.result>>))
               /\ UNCHANGED frames
    /\ UNCHANGED <<cc_image, cc_answers, ccRest>>

CcParseResponse(i) ==
    /\ ccPc[i] = "responded"
    /\ \E o \in {sanitize_response(frames[frame(i)].response_text)} :
          IF o.raised
          THEN CcFail(i, o.exc) /\ UNCHANGED frames
          ELSE /\ frames' = [frames EXCEPT ![frame(i)].rooms_data = o.value]
               /\ ccPc' = [ccPc EXCEPT ![i] = "parsed"]
               /\ UNCHANGED cc_envelope
    /\ UNCHANGED <<cc_image, cc_answers, ccRest>>

CcValidateAndReturn(i) ==
    /\ ccPc[i] = "parsed"
    /\ \E o \in {validate_rooms(frames[frame(i)].rooms_data)} :
          IF o.raised
          THEN CcFail(i, o.exc)
          ELSE /\ cc_envelope' = [cc_envelope EXCEPT ![i] =
                                     [success |-> TRUE, rooms |-> o.value, error |-> None]]
               /\ ccPc' = [ccPc EXCEPT ![i] = "returned"]
    /\ UNCHANGED <<cc_image, cc_answers, frames, ccRest>>

NextConcurrent ==
    \E i \in Invocations :
        \/ CcPreprocess(i)
        \/ CcSelectPrompt(i)
        \/ CcInvokeAttempt(i)
        \/ CcParseResponse(i)
        \/ CcValidateAndReturn(i)

SpecConcurrent == InitConcurrent /\ [][NextConcurrent]_vars

\* the success, rooms and error of a run on its own
Failure(e) == [success |-> FALSE, rooms |-> <<>>, error |-> e.msg]

AloneValidated(o) ==
    IF o.raised THEN Failure(o.exc)
    ELSE [success |-> TRUE, rooms |-> o.value, error |-> None]

AloneParsed(o) ==
    IF o.raised THEN Failure(o.exc) ELSE AloneValidated(validate_rooms(o.value))

\* the first call that does not end in a ClientError, or the last call
AloneAnswer(answers) ==
    IF \E k \in 1..SharedMaxRetries : answers[k].result = "ok"
    THEN answers[CHOOSE k \in 1..SharedMaxRetries :
                    /\ answers[k].result = "ok"
                    /\ \A j \in 1..(k - 1) : answers[j].result # "ok"]
    ELSE answers[SharedMaxRetries]

AloneInvoked(a) ==
    IF a.result = "ok" THEN AloneParsed(sanitize_response(a.text))
    ELSE Failure(Exc("ClientError", <<"An error occurred", a.result>>))

RunAlone(img, answers) ==
    IF ImageProcessor_preprocess_blueprint(img).raised
    THEN Failure(ImageProcessor_preprocess_blueprint(img).exc)
    ELSE AloneInvoked(AloneAnswer(answers))

\* C21: two invocations of execute on one use-case object, interleaved step
\* by step in any order, each return the success, rooms and error that the
\* same image and the same model answers give when the invocation runs on
\* its own.
C21_NoInterference ==
    \A i \in Invocations :
        ccPc[i] = "returned" => cc_envelope[i] = RunAlone(cc_image[i], cc_answers[i])

\* C21 witness: invocation 1 has returned its rooms while invocation 2,
\* retrying after a throttling error, is still waiting with prose to parse;
\* the two were given different answers
C21_Witness ==
    /\ ccPc[1] = "returned" /\ cc_envelope[1].success /\ cc_envelope[1].rooms # <<>>
    /\ ccPc[2] = "responded"
    /\ frames[2].attempt = 1
    /\ frames[2].response_text = Str(<<T("word")>>)
    /\ frames[1].response_text # frames[2].response_text

====
